---- MODULE Spec2Model ----
(***************************************************************************)
(* A model of the SSAPRE pass (lib/Transforms/Scalar/SSAPRE.cpp and        *)
(* include/llvm/Transforms/Scalar/SSAPRE.h).                               *)
(*                                                                         *)
(* The state is the IR of the function being processed, the members of the *)
(* SSAPRE object (the maps and sets declared in SSAPRE.h) and the position *)
(* of runImpl.  Objects are identified by their addresses:                 *)
(*   - block b of function f is        f * 10 + b                          *)
(*   - instruction i of function f is  f * 100 + i     (i < 90)            *)
(*   - argument n of function f is     f * 100 + 90 + n                    *)
(*   - an Expression object is a key of the heap; 0 is nullptr and 1 is    *)
(*     the file-scope object BExpr.                                        *)
(* Two pointers are equal exactly when the numbers are equal.              *)
(***************************************************************************)
EXTENDS Integers, Sequences, FiniteSets, TLC

VARIABLES
    cfg,        \* index of the control-flow graph of the functions of the module
    analyses,   \* RPOT, predecessor lists and dominator tree of that graph
    prog,       \* the source program the functions of the module were built from
    asserts,    \* TRUE: the build keeps assert(); FALSE: NDEBUG
    cur,        \* index of the function runImpl is (or was last) called on
    run,        \* number of calls of runImpl so far
    reused,     \* TRUE when this call uses a pass object that ran before
    pc,         \* position of runImpl
    ir,         \* the IR of function cur
    irIn,       \* the IR of function cur when runImpl was entered
    outPrev,    \* IR and report of the previous completed call
    report,     \* what runImpl returned: "all" or "none" (preserved analyses)
    heap,       \* the Expression objects, by address
    P,          \* the members of the SSAPRE object
    stk,        \* Step 2: the local PExprToVExprStack
    rc,         \* Step 2: the local PExprToRC (Counter per prototype)
    erasedLog,  \* the instructions eraseFromParent was called on in this call
    calls,      \* Steps 3 and 4 run call by call: the activation records
    writer      \* the BinaryStreamWriter and the stream it writes to

vars == <<cfg, analyses, prog, asserts, cur, run, reused, pc, ir, irIn, outPrev,
          report, heap, P, stk, rc, erasedLog, calls, writer>>

----------------------------------------------------------------------------
(* Bounds of the model *)

\* Most expression instructions of an input function.
MaxInsts == 2

\* Most calls of runImpl in one behaviour.
MaxRuns == 2

\* The factors of a factor graph handed to Steps 3 and 4 on their own.
MaxFactors == 3

----------------------------------------------------------------------------
(* Generic helpers on sequences, sets and maps *)

Range(s) == { s[i] : i \in DOMAIN s }

RECURSIVE SetToSeq(_)
SetToSeq(S) ==
    IF S = {} THEN <<>>
    ELSE LET m == CHOOSE x \in S : \A y \in S : x <= y
         IN <<m>> \o SetToSeq(S \ {m})

RECURSIVE Reverse(_)
Reverse(s) == IF s = <<>> THEN <<>> ELSE Append(Reverse(Tail(s)), Head(s))

RECURSIVE IndexOf(_, _, _)
IndexOf(s, x, i) ==
    IF i > Len(s) THEN 0 ELSE IF s[i] = x THEN i ELSE IndexOf(s, x, i + 1)

\* The concatenation of a sequence of sequences.
RECURSIVE Flatten(_)
Flatten(ss) == IF ss = <<>> THEN <<>> ELSE Head(ss) \o Flatten(Tail(ss))

\* DenseMap: a function whose domain is the set of keys present.
MapPut(m, k, v) == [x \in (DOMAIN m) \cup {k} |-> IF x = k THEN v ELSE m[x]]

MapHas(m, k) == k \in DOMAIN m

EmptyMap == [x \in {} |-> 0]

\* BinaryStreamWriter::BinaryStreamWriter: Offset(0), on a stream that has
\* accepted nothing; ec is what the last call returned, call the last call.
NewWriter ==
    [Offset |-> 0, data |-> <<>>, accepted |-> 0, ec |-> FALSE, call |-> <<>>,
     endian |-> "little"]

----------------------------------------------------------------------------
(* The control-flow graphs.  succ[b] lists the successors of the terminator *)
(* of block b in operand order; block 1 is the entry block.                *)

CFGs ==
    << [succ |-> << <<>> >>],                               \* A
       [succ |-> << <<2>>, <<>> >>],                        \* A -> B
       [succ |-> << <<2, 3>>, <<>>, <<>> >>],               \* A -> {B, C}
       [succ |-> << <<2, 3>>, <<4>>, <<4>>, <<>> >>],       \* A -> {B, C} -> D
       [succ |-> << <<2>>, <<2, 3>>, <<>> >>],              \* A -> H, H -> {H, X}
       [succ |-> << <<2, 3>>, <<4, 3>>, <<>>, <<>> >>],     \* A -> {P, Q}, P -> {Y, Q}
       [succ |-> << <<2, 3>>, <<3, 3>>, <<>> >>],           \* A -> {B, C}, B -> {C, C}
       [succ |-> << <<3, 2>>, <<>>, <<3>> >>] >>            \* A -> {L, X}, L -> L

\* The analyses of a function depend on its control-flow graph only: they
\* are worked out for graph g here and looked up by the pass below.
SuccOf(g, b) == CFGs[g].succ[b]

BlocksOf(g) == 1 .. Len(CFGs[g].succ)

\* pred_begin(B) .. pred_end(B): one entry per CFG edge into b.
RECURSIVE PredEdges(_, _, _, _)
PredEdges(g, b, p, i) ==
    IF p > Len(CFGs[g].succ) THEN <<>>
    ELSE IF i > Len(SuccOf(g, p)) THEN PredEdges(g, b, p + 1, 1)
    ELSE (IF SuccOf(g, p)[i] = b THEN <<p>> ELSE <<>>) \o PredEdges(g, b, p, i + 1)

\* ReversePostOrderTraversal<Function *>: depth-first from the entry block,
\* successors in operand order, blocks listed when left, the list reversed.
RECURSIVE PoVisit(_, _, _)
RECURSIVE PoChildren(_, _, _, _)
PoVisit(g, b, st) ==
    LET st1 == [st EXCEPT !.vis = @ \cup {b}]
        st2 == PoChildren(g, SuccOf(g, b), 1, st1)
    IN [st2 EXCEPT !.out = Append(@, b)]

PoChildren(g, ss, i, st) ==
    IF i > Len(ss) THEN st
    ELSE PoChildren(g, ss, i + 1,
                    IF ss[i] \in st.vis THEN st ELSE PoVisit(g, ss[i], st))

RPOTOf(g) == Reverse(PoVisit(g, 1, [vis |-> {}, out |-> <<>>]).out)

\* Blocks reachable from the entry block without passing through block d.
RECURSIVE ReachAvoiding(_, _, _)
ReachAvoiding(g, d, S) ==
    LET N == S \cup { t \in BlocksOf(g) :
                        t # d /\ \E p \in S : t \in Range(SuccOf(g, p)) }
    IN IF N = S THEN S ELSE ReachAvoiding(g, d, N)

\* DominatorTree: d dominates b when every path from the entry to b meets d.
DominatesIn(g, d, b) ==
    \/ d = b
    \/ d = 1
    \/ b \notin ReachAvoiding(g, d, {1})

IDomIn(g, b) ==
    CHOOSE d \in BlocksOf(g) :
        /\ d # b /\ DominatesIn(g, d, b)
        /\ \A e \in BlocksOf(g) : (e # b /\ DominatesIn(g, e, b)) => DominatesIn(g, e, d)

DomChildrenIn(g, d) == { b \in BlocksOf(g) \ {1} : IDomIn(g, b) = d }

\* The children of a dominator-tree node after std::sort by RPOOrdering:
\* ascending for the DFS numbering, descending for the SDFS numbering.
RECURSIVE SortByRPO(_, _, _)
SortByRPO(g, S, asc) ==
    IF S = {} THEN <<>>
    ELSE LET m == CHOOSE x \in S : \A y \in S :
                      IF asc THEN IndexOf(RPOTOf(g), x, 1) <= IndexOf(RPOTOf(g), y, 1)
                             ELSE IndexOf(RPOTOf(g), x, 1) >= IndexOf(RPOTOf(g), y, 1)
         IN <<m>> \o SortByRPO(g, S \ {m}, asc)

\* df_begin(DT->getRootNode()) .. df_end: pre-order of the dominator tree.
RECURSIVE DomTreeDFIn(_, _, _)
RECURSIVE DomTreeDFList(_, _, _, _)
DomTreeDFIn(g, b, asc) ==
    <<b>> \o DomTreeDFList(g, SortByRPO(g, DomChildrenIn(g, b), asc), 1, asc)

DomTreeDFList(g, cs, i, asc) ==
    IF i > Len(cs) THEN <<>>
    ELSE DomTreeDFIn(g, cs[i], asc) \o DomTreeDFList(g, cs, i + 1, asc)

\* What the pass is handed or builds once for the function with graph g: the
\* reverse post-order, the predecessor lists, the dominator tree (as the set
\* of blocks each block dominates) and its two pre-orders.
AnalysesOf(g) ==
    [rpot  |-> RPOTOf(g),
     preds |-> [b \in BlocksOf(g) |-> PredEdges(g, b, 1, 1)],
     dom   |-> [d \in BlocksOf(g) |-> { b \in BlocksOf(g) : DominatesIn(g, d, b) }],
     df    |-> [asc \in BOOLEAN |-> DomTreeDFIn(g, 1, asc)]]

Succ(b) == CFGs[cfg].succ[b]

NumBlocks == Len(CFGs[cfg].succ)

Blocks == 1 .. NumBlocks

Preds(b) == analyses.preds[b]

RPOT == analyses.rpot

BlockDominates(d, b) == b \in analyses.dom[d]

StrictlyDominates(d, b) == d # b /\ BlockDominates(d, b)

DomTreeDF(asc) == analyses.df[asc]

\* ForwardIDFCalculator: the iterated dominance frontier of a set of blocks.
DomFrontier(b) ==
    { j \in Blocks : /\ \E p \in Range(Preds(j)) : BlockDominates(b, p)
                     /\ ~StrictlyDominates(b, j) }

RECURSIVE IDFClosure(_, _)
IDFClosure(Defs, Acc) ==
    LET N == Acc \cup UNION { DomFrontier(b) : b \in Defs \cup Acc }
    IN IF N = Acc THEN Acc ELSE IDFClosure(Defs, N)

IDF(Defs) == IDFClosure(Defs, {})

----------------------------------------------------------------------------
(* Addresses *)

BlockPtr(f, b) == (f * 10) + b

InstPtr(f, i) == (f * 100) + i

ArgPtr(f, n) == (f * 100) + 90 + n

\* The terminator of block b of function f.
TermPtr(f, b) == (f * 100) + 80 + b

IsArgument(v) == v % 100 >= 90

ArgNo(v) == (v % 100) - 90

IsTerminator(i) == (i % 100) > 80 /\ (i % 100) < 90

FnOfBlock(B) == B \div 10

LocalBlock(B) == B % 10

\* F.arg_size(): every function of the module takes two arguments, x and y.
NumArgs == 2

----------------------------------------------------------------------------
(* The IR.  Opcodes and predicates are the numbers of Instruction.def and   *)
(* of CmpInst::Predicate.                                                  *)

OpAdd == 11

OpSub == 13

OpICmp == 51

OpPHI == 53

OpCall == 54

ICMP_SGT == 38

ICMP_SLT == 40

\* CmpInst::getSwappedPredicate
SwappedPredicate(p) ==
    IF p = ICMP_SLT THEN ICMP_SGT ELSE IF p = ICMP_SGT THEN ICMP_SLT ELSE p

\* Instruction::isCommutative
IsCommutative(opc) == opc = OpAdd

IsCmp(opc) == opc = OpICmp

IsBinaryOp(opc) == opc \in {OpAdd, OpSub}

\* The instructions a source program is written with: an expression over the
\* two arguments (x op y, y op x, or x op x), or over the PHIs that stand at
\* the head of its block (p op y, p op q), and whether a call uses its value.
Templates ==
    << [opc |-> OpAdd,  pred |-> 0,        swap |-> FALSE, same |-> FALSE, ty |-> "i32", phis |-> 0],
       [opc |-> OpAdd,  pred |-> 0,        swap |-> TRUE,  same |-> FALSE, ty |-> "i32", phis |-> 0],
       [opc |-> OpICmp, pred |-> ICMP_SLT, swap |-> FALSE, same |-> FALSE, ty |-> "i1",  phis |-> 0],
       [opc |-> OpICmp, pred |-> ICMP_SGT, swap |-> TRUE,  same |-> FALSE, ty |-> "i1",  phis |-> 0],
       [opc |-> OpSub,  pred |-> 0,        swap |-> FALSE, same |-> TRUE,  ty |-> "i32", phis |-> 0],
       [opc |-> OpAdd,  pred |-> 0,        swap |-> FALSE, same |-> FALSE, ty |-> "i32", phis |-> 1],
       [opc |-> OpAdd,  pred |-> 0,        swap |-> FALSE, same |-> FALSE, ty |-> "i32", phis |-> 2] >>

Items == [blk : 1 .. 4, tmpl : 1 .. Len(Templates), used : BOOLEAN]

\* The PHIs of item k: p is the first instruction of the block, q the second.
\* The allocator handed q the lower address.
PhiP(f, k) == InstPtr(f, 30 + k)

PhiQ(f, k) == InstPtr(f, 20 + k)

PhisOf(f, it, k) ==
    LET n == Templates[it.tmpl].phis
    IN IF n = 0 THEN <<>> ELSE IF n = 1 THEN <<PhiP(f, k)>> ELSE <<PhiP(f, k), PhiQ(f, k)>>

\* Item k of the program becomes instruction 2k-1 and, when used, the call
\* 2k that takes it as its operand, placed right after it; its PHIs stand
\* before it.
ItemInsts(f, it, k) ==
    PhisOf(f, it, k) \o <<InstPtr(f, (2 * k) - 1)>> \o
        (IF it.used THEN <<InstPtr(f, 2 * k)>> ELSE <<>>)

RECURSIVE BodyOf(_, _, _, _)
BodyOf(f, pg, b, k) ==
    IF k > Len(pg) THEN <<>>
    ELSE (IF pg[k].blk = b THEN ItemInsts(f, pg[k], k) ELSE <<>>)
         \o BodyOf(f, pg, b, k + 1)

ExprInstOf(f, it) ==
    LET t == Templates[it.tmpl]
    IN [opc |-> t.opc, pred |-> t.pred, ty |-> t.ty,
        ops |-> IF t.same THEN <<ArgPtr(f, 0), ArgPtr(f, 0)>>
                ELSE IF t.swap THEN <<ArgPtr(f, 1), ArgPtr(f, 0)>>
                ELSE <<ArgPtr(f, 0), ArgPtr(f, 1)>>]

\* The expression of item k when it reads the PHIs of its block.
PhiUserOf(f, it, k) ==
    LET n == Templates[it.tmpl].phis
    IN IF n = 0 THEN ExprInstOf(f, it)
       ELSE [ExprInstOf(f, it) EXCEPT
                !.ops = IF n = 1 THEN <<PhiP(f, k), ArgPtr(f, 1)>>
                        ELSE <<PhiP(f, k), PhiQ(f, k)>>]

\* A PHI of block b: one incoming value per predecessor edge, x and y in turn.
PhiInstOf(f, b) ==
    [opc |-> OpPHI, pred |-> 0, ty |-> "i32",
     ops |-> [i \in DOMAIN Preds(b) |-> ArgPtr(f, (i - 1) % 2)]]

CallInstOf(f, k) ==
    [opc |-> OpCall, pred |-> 0, ty |-> "void", ops |-> <<InstPtr(f, (2 * k) - 1)>>]

\* Function f of the module: body[b] is the non-terminator instructions of
\* block b in program order, inst the instructions by address.
BuildIR(f, nb, pg) ==
    LET ids == UNION { Range(ItemInsts(f, pg[k], k)) : k \in DOMAIN pg }
    IN [body |-> [b \in 1 .. nb |-> BodyOf(f, pg, b, 1)],
        inst |-> [i \in ids |->
                    LET l == i % 100
                    IN IF l > 30 THEN PhiInstOf(f, pg[l - 30].blk)
                       ELSE IF l > 20 THEN PhiInstOf(f, pg[l - 20].blk)
                       ELSE IF l % 2 = 1 THEN PhiUserOf(f, pg[(l + 1) \div 2], (l + 1) \div 2)
                                         ELSE CallInstOf(f, l \div 2)]]

\* The instructions of block b, the terminator last.
BlockInsts(b) == ir.body[b] \o <<TermPtr(cur, b)>>

\* Instruction::hasNUses(0) and the users of a value.
Users(fn, v) == { u \in DOMAIN fn.inst : v \in Range(fn.inst[u].ops) }

\* Value::replaceAllUsesWith
RAUW(fn, old, new) ==
    [fn EXCEPT !.inst = [u \in DOMAIN @ |->
        [@[u] EXCEPT !.ops = [k \in DOMAIN @ |-> IF @[k] = old THEN new ELSE @[k]]]]]

RECURSIVE SeqRemove(_, _)
SeqRemove(s, x) ==
    IF s = <<>> THEN <<>>
    ELSE (IF Head(s) = x THEN <<>> ELSE <<Head(s)>>) \o SeqRemove(Tail(s), x)

\* Two faulty versions of eraseFromParent, to see that the statements about
\* the erasures tell them from the real one: the first leaves the instruction
\* where it is, the second leaves it and puts a copy of it after it.
KeepInst(fn, i) == fn

CloneInst(fn, i) ==
    [body |-> [b \in DOMAIN fn.body |->
                 Flatten([k \in DOMAIN fn.body[b] |->
                     IF fn.body[b][k] = i THEN <<i, i + 40>> ELSE <<fn.body[b][k]>>])],
     inst |-> MapPut(fn.inst, i + 40, fn.inst[i])]

\* Instruction::eraseFromParent
EraseFromParent(fn, i) ==
    [body |-> [b \in DOMAIN fn.body |-> SeqRemove(fn.body[b], i)],
     inst |-> [u \in (DOMAIN fn.inst) \ {i} |-> fn.inst[u]]]

----------------------------------------------------------------------------
(* Expression objects (SSAPRE.h) *)

\* ~2U, the default opcode, read as a signed number.
DefaultOpcode == -3

\* ~0, the rank of a value with no DFS number: above every other rank.
NoRank == 2147483647

NullPtr == 0

\* Expression BExpr(ET_Buttom, ~2U, false) is the first object of the heap.
BExprPtr == 1

\* Expression::Expression: Version(-1), Proto(nullptr), Save(S), Reload(false);
\* the fields of the subclasses are those of BasicExpression (ty, ops),
\* IgnoredExpression (inst) and FactorExpression (pe .. later).
MkExpr(et, opcode, save) ==
    [et |-> et, opcode |-> opcode, version |-> -1, save |-> save, reload |-> FALSE,
     ty |-> "", ops |-> <<>>, inst |-> NullPtr,
     pe |-> NullPtr, bb |-> NullPtr, pred |-> <<>>, versions |-> <<>>, hru |-> <<>>,
     downSafe |-> FALSE, canBeAvail |-> FALSE, later |-> FALSE]

BExprObj == MkExpr("Bottom", DefaultOpcode, FALSE)

\* A faulty classof that recognises nothing, to see that the statement about
\* the inert instructions tells it from the real one.
NeverInert(e) == FALSE

\* The classof predicates.
IsIgnored(e) == e.et = "Ignored"

IsUnknown(e) == e.et = "Unknown"

IsBasic(e) == e.et \in {"Basic", "Phi"}

IsFactor(e) == e.et = "Factor"

\* FactorExpression::FactorExpression
MkFactor(pe, B, preds) ==
    [MkExpr("Factor", DefaultOpcode, TRUE) EXCEPT
        !.pe = pe, !.bb = B, !.pred = preds,
        !.versions = [i \in DOMAIN preds |-> NullPtr],
        !.hru = [i \in DOMAIN preds |-> FALSE],
        !.downSafe = TRUE, !.canBeAvail = TRUE, !.later = TRUE]

\* FactorExpression::getWillBeAvail
WillBeAvailOf(f) == f.canBeAvail /\ ~f.later

\* FactorExpression::getPredIndex and getVExprIndex: the first index, 0 for -1.
GetPredIndex(f, B) == IndexOf(f.pred, B, 1)

GetVExprIndex(f, V) == IndexOf(f.versions, V, 1)

\* Expression::equals and its overrides, reached through operator==.
ExprEquals(a, b) ==
    /\ a.opcode = b.opcode
    /\ a.et = b.et
    /\ a.version = b.version
    /\ (IsBasic(a) => a.ty = b.ty /\ a.ops = b.ops)
    /\ (IsIgnored(a) \/ IsUnknown(a) => a.inst = b.inst)
    /\ (IsFactor(a) => a.bb = b.bb)

----------------------------------------------------------------------------
(* Expression construction (SSAPRE.cpp 95-356) *)

Lookup(m, k) == IF k \in DOMAIN m THEN m[k] ELSE 0

GetRank(Pm, V) ==
    IF IsArgument(V) THEN 2 + ArgNo(V)
    ELSE LET Result == Lookup(Pm.InstrDFS, V)
         IN IF Result > 0 THEN 3 + Pm.NumFuncArgs + Result ELSE NoRank

\* std::make_pair(GetRank(A), A) > std::make_pair(GetRank(B), B)
ShouldSwapOperands(Pm, A, B) ==
    \/ GetRank(Pm, A) > GetRank(Pm, B)
    \/ GetRank(Pm, A) = GetRank(Pm, B) /\ A > B

\* SimplifyCmpInst / SimplifyBinOp on the operands of the model: a compare of
\* a value with itself and x - x fold to a constant, nothing else folds.
SimplifiesToConstant(opc, ops) == (IsCmp(opc) \/ opc = OpSub) /\ ops[1] = ops[2]

CreateIgnoredExpression(I, inst) ==
    [MkExpr("Ignored", inst.opc, TRUE) EXCEPT !.inst = I]

CreateUnknownExpression(I, inst) ==
    [MkExpr("Unknown", inst.opc, TRUE) EXCEPT !.inst = I]

CreateBasicExpression(Pm, I, inst) ==
    LET swap1 == IsCommutative(inst.opc) /\ ShouldSwapOperands(Pm, inst.ops[1], inst.ops[2])
        ops1  == IF swap1 THEN <<inst.ops[2], inst.ops[1]>> ELSE inst.ops
        swap2 == IsCmp(inst.opc) /\ ShouldSwapOperands(Pm, ops1[1], ops1[2])
        ops2  == IF swap2 THEN <<ops1[2], ops1[1]>> ELSE ops1
        pred  == IF swap2 THEN SwappedPredicate(inst.pred) ELSE inst.pred
        opc   == IF IsCmp(inst.opc) THEN (inst.opc * 256) + pred ELSE inst.opc
    IN IF (IsCmp(inst.opc) \/ IsBinaryOp(inst.opc)) /\ SimplifiesToConstant(inst.opc, ops2)
       THEN CreateIgnoredExpression(I, inst)
       ELSE [MkExpr("Basic", opc, TRUE) EXCEPT !.ty = inst.ty, !.ops = ops2]

CreatePHIExpression(I, inst) ==
    [MkExpr("Phi", inst.opc, TRUE) EXCEPT !.ty = inst.ty, !.ops = inst.ops]

\* The switch of CreateExpression: ICmp and FCmp fall out of their case with
\* E == nullptr and so does every memory and call opcode.
CreateExpression(Pm, I, inst) ==
    IF inst.opc = OpPHI THEN CreatePHIExpression(I, inst)
    ELSE IF inst.opc \in {OpAdd, OpSub} THEN CreateBasicExpression(Pm, I, inst)
    ELSE CreateUnknownExpression(I, inst)

----------------------------------------------------------------------------
(* The members of a newly constructed SSAPRE object (SSAPRE.h 480-551) *)

FreshP ==
    [NumFuncArgs |-> 0,
     InstrDFS |-> EmptyMap, InstrSDFS |-> EmptyMap,
     InstToVExpr |-> EmptyMap, VExprToInst |-> EmptyMap, VExprToPExpr |-> EmptyMap,
     PExprToInsts |-> EmptyMap, PExprToBlocks |-> EmptyMap,
     FExprs |-> <<>>, BlockToFactors |-> EmptyMap,
     AvailDef |-> EmptyMap, BlockToInserts |-> EmptyMap, KillList |-> <<>>]

\* DenseMap::insert leaves an existing entry alone; operator[] creates one.
MapInsert(m, k, v) == IF k \in DOMAIN m THEN m ELSE MapPut(m, k, v)

\* SmallPtrSet::insert in the small representation: insertion order, no repeats.
SetInsert(s, x) == IF x \in Range(s) THEN s ELSE Append(s, x)

----------------------------------------------------------------------------
(* runImpl 718-836: collect the expressions, number the instructions *)

\* The body of the loop over the non-terminator instructions of block b.
RECURSIVE CollectInsts(_, _, _)
CollectInsts(is, b, c) ==
    IF is = <<>> THEN c
    ELSE LET I  == Head(is)
             PE == Len(c.heap) + 1
             VE == Len(c.heap) + 2
             h2 == c.heap \o <<CreateExpression(c.P, I, ir.inst[I]),
                               CreateExpression(c.P, I, ir.inst[I])>>
             Pm == c.P
             grouped == MapHas(Pm.PExprToInsts, PE)
             P2 == [Pm EXCEPT
                      !.InstToVExpr = MapInsert(@, I, VE),
                      !.VExprToInst = MapInsert(@, VE, I),
                      !.VExprToPExpr = MapPut(@, VE, PE),
                      !.PExprToInsts =
                          IF grouped THEN [@ EXCEPT ![PE] = SetInsert(@, I)]
                                     ELSE MapPut(@, PE, <<I>>),
                      !.PExprToBlocks =
                          IF grouped THEN [@ EXCEPT ![PE] = SetInsert(@, BlockPtr(cur, b))]
                                     ELSE MapPut(@, PE, <<BlockPtr(cur, b)>>)]
             \* PExprToRC.insert({PE, {}}): Counter starts at 0.
             rc2 == IF grouped THEN c.rc ELSE MapInsert(c.rc, PE, 0)
         IN CollectInsts(Tail(is), b, [heap |-> h2, P |-> P2, rc |-> rc2])

RECURSIVE CollectBlocks(_, _)
CollectBlocks(i, c) ==
    IF i > Len(RPOT) THEN c
    ELSE CollectBlocks(i + 1, CollectInsts(ir.body[RPOT[i]], RPOT[i], c))

\* AssignDFSNumbers over the blocks of a dominator-tree walk.
RECURSIVE AssignNumbers(_, _, _)
AssignNumbers(is, n, m) ==
    IF is = <<>> THEN m
    ELSE AssignNumbers(Tail(is), n + 1, MapPut(m, Head(is), n))

InstsInOrder(blocks) == Flatten([k \in DOMAIN blocks |-> BlockInsts(blocks[k])])

\* The whole prologue: c is [heap, P, rc].
Prologue(c) ==
    LET c1 == CollectBlocks(1, [c EXCEPT !.P.NumFuncArgs = NumArgs])
        dfs  == AssignNumbers(InstsInOrder(DomTreeDF(TRUE)), 1, c1.P.InstrDFS)
        sdfs == AssignNumbers(InstsInOrder(DomTreeDF(FALSE)), 1, c1.P.InstrSDFS)
    IN [c1 EXCEPT !.P.InstrDFS = dfs, !.P.InstrSDFS = sdfs]

----------------------------------------------------------------------------
(* STEP 1: F-Insertion (runImpl 838-880) *)

\* The blocks of the set that the dominator tree of the current function
\* knows; IDFCalculator drops a defining block that has no tree node.
LocalBlocksOf(Bs) == { LocalBlock(B) : B \in { X \in Range(Bs) : FnOfBlock(X) = cur } }

PredPtrs(b) == [i \in DOMAIN Preds(b) |-> BlockPtr(cur, Preds(b)[i])]

IsPHINode(O) == O \in DOMAIN ir.inst /\ ir.inst[O].opc = OpPHI

ParentOf(I) == CHOOSE b \in Blocks : I \in Range(BlockInsts(b))

\* BlockToFactors[B].insert(F), creating the entry when there is none.
AddBlockFactor(m, B, F) ==
    IF B \in DOMAIN m THEN [m EXCEPT ![B] = SetInsert(@, F)] ELSE MapPut(m, B, <<F>>)

\* for (const auto &B : IDF): the factor is entered in FExprs and BlockToFactors.
RECURSIVE InsertIDFFactors(_, _, _)
InsertIDFFactors(bs, PE, c) ==
    IF bs = <<>> THEN c
    ELSE LET B == BlockPtr(cur, Head(bs))
             F == Len(c.heap) + 1
         IN InsertIDFFactors(Tail(bs), PE,
                [c EXCEPT !.heap = Append(@, MkFactor(PE, B, PredPtrs(Head(bs)))),
                          !.P.FExprs = SetInsert(@, F),
                          !.P.BlockToFactors = AddBlockFactor(@, B, F)])

\* for (auto &O : BE->getOperands()): a factor at the block of an operand phi
\* is entered in BlockToFactors only.
RECURSIVE InsertPhiFactors(_, _, _)
InsertPhiFactors(os, PE, c) ==
    IF os = <<>> THEN c
    ELSE IF ~IsPHINode(Head(os)) THEN InsertPhiFactors(Tail(os), PE, c)
    ELSE LET b == ParentOf(Head(os))
             B == BlockPtr(cur, b)
             F == Len(c.heap) + 1
         IN InsertPhiFactors(Tail(os), PE,
                [c EXCEPT !.heap = Append(@, MkFactor(PE, B, PredPtrs(b))),
                          !.P.BlockToFactors = AddBlockFactor(@, B, F)])

RECURSIVE FactorInsertionLoop(_, _)
FactorInsertionLoop(pes, c) ==
    IF pes = <<>> THEN c
    ELSE LET PE == Head(pes)
             e  == c.heap[PE]
         IN IF IsIgnored(e) \/ IsUnknown(e) THEN FactorInsertionLoop(Tail(pes), c)
            ELSE LET idf == SetToSeq(IDF(LocalBlocksOf(c.P.PExprToBlocks[PE])))
                     c1  == InsertIDFFactors(idf, PE, c)
                     c2  == IF IsBasic(e) THEN InsertPhiFactors(e.ops, PE, c1) ELSE c1
                 IN FactorInsertionLoop(Tail(pes), c2)

FactorInsertion(c) == FactorInsertionLoop(SetToSeq(DOMAIN c.P.PExprToInsts), c)

----------------------------------------------------------------------------
(* STEP 2: Rename (runImpl 884-1003), one block of the loop at a time.     *)
(* c is [heap, P, rc, stk, ubHru, ubExit, assertFail, pushed, trace]:      *)
(* ubHru collects the factor slots whose HasRealUse was read through top() *)
(* of an empty stack, ubExit says that the exit loop called top() on an    *)
(* empty stack.  pushed and trace observe the walk and are read by nothing *)
(* in it: pushed lists the occurrences pushed so far, trace has one entry  *)
(* per real occurrence with the stacks as its backtrace left them.         *)

\* A std::stack of (SDFS, Expression*) pairs: the top is the last element.
StackOf(m, k) == IF k \in DOMAIN m THEN m[k] ELSE <<>>

Push(m, k, e) == MapPut(m, k, Append(StackOf(m, k), e))

TopOf(st) == st[Len(st)][2]

RECURSIVE PopWhileAbove(_, _)
PopWhileAbove(st, SDFS) ==
    IF st # <<>> /\ st[Len(st)][1] > SDFS
    THEN PopWhileAbove(SubSeq(st, 1, Len(st) - 1), SDFS)
    ELSE st

\* Backtrace every PExprs' stack if we jumped up the tree.
Backtrace(m, SDFS) == [k \in DOMAIN m |-> PopWhileAbove(m[k], SDFS)]

FactorsAt(Pm, B) == IF B \in DOMAIN Pm.BlockToFactors THEN Pm.BlockToFactors[B] ELSE <<>>

\* for (auto FE : BlockToFactors[B]): version the factor and push it on the
\* stack whose key is the factor itself.
RECURSIVE RenameFactors(_, _, _)
RenameFactors(fs, FSDFS, c) ==
    IF fs = <<>> THEN c
    ELSE LET FE == Head(fs)
             pe == c.heap[FE].pe
             n  == Lookup(c.rc, pe)
         IN RenameFactors(Tail(fs), FSDFS,
                [c EXCEPT !.heap[FE].version = n,
                          !.rc = MapPut(@, pe, n + 1),
                          !.stk = Push(@, FE, <<FSDFS, FE>>),
                          !.pushed = Append(@, FE)])

\* for (auto F : BlockToFactors[S]) at the terminator of block B.
RECURSIVE RenameSuccFactors(_, _, _)
RenameSuccFactors(fs, B, c) ==
    IF fs = <<>> THEN c
    ELSE LET F   == Head(fs)
             pe  == c.heap[F].pe
             VES == StackOf(c.stk, pe)
             PI  == GetPredIndex(c.heap[F], B)
             c1  == [c EXCEPT !.stk = MapInsert(@, pe, <<>>)]
         IN IF PI = 0 THEN [c1 EXCEPT !.assertFail = TRUE]
            ELSE RenameSuccFactors(Tail(fs), B,
                   IF VES = <<>>
                   THEN [c1 EXCEPT !.heap[F].versions[PI] = BExprPtr,
                                   !.heap[F].hru[PI] = FALSE,
                                   !.ubHru = @ \cup {<<F, PI>>}]
                   ELSE [c1 EXCEPT !.heap[F].versions[PI] = TopOf(VES),
                                   !.heap[F].hru[PI] = IsBasic(c.heap[TopOf(VES)]),
                                   !.ubHru = @ \ {<<F, PI>>}])

RECURSIVE RenameSuccessors(_, _, _)
RenameSuccessors(ss, B, c) ==
    IF ss = <<>> \/ c.assertFail THEN c
    ELSE LET S  == BlockPtr(cur, Head(ss))
             c1 == [c EXCEPT !.P.BlockToFactors = MapInsert(@, S, <<>>)]
         IN RenameSuccessors(Tail(ss), B, RenameSuccFactors(FactorsAt(c.P, S), B, c1))

\* if (T->getNumSuccessors() == 0): clear DownSafe of every factor on top of
\* a stack.
RenameExit(c) ==
    LET tops == { TopOf(c.stk[k]) : k \in { x \in DOMAIN c.stk : c.stk[x] # <<>> } }
    IN [c EXCEPT !.heap = [x \in DOMAIN @ |->
                             IF x \in tops /\ IsFactor(@[x])
                             THEN [@[x] EXCEPT !.downSafe = FALSE] ELSE @[x]],
                 !.ubExit = \E k \in DOMAIN c.stk : c.stk[k] = <<>>]

RenameTerminator(T, b, c) ==
    LET c1 == [c EXCEPT !.P.InstToVExpr = MapInsert(@, T, NullPtr),
                        !.P.VExprToPExpr = MapInsert(@, NullPtr, NullPtr)]
        c2 == RenameSuccessors(Succ(b), BlockPtr(cur, b), c1)
    IN IF Succ(b) = <<>> /\ ~c2.assertFail THEN RenameExit(c2) ELSE c2

\* A real occurrence: backtrace, take the version of the top of the stack of
\* its prototype or a new one, push.
RenameReal(I, c) ==
    LET VE   == c.P.InstToVExpr[I]
        PE   == c.P.VExprToPExpr[VE]
        SDFS == c.P.InstrSDFS[I]
        n    == Lookup(c.rc, PE)
        st1  == Backtrace(MapInsert(c.stk, PE, <<>>), SDFS)
        VES  == st1[PE]
        VESTop == IF VES = <<>> THEN NullPtr ELSE TopOf(VES)
        same == VESTop # NullPtr /\ Lookup(c.P.VExprToPExpr, VESTop) = PE
        h1   == IF same THEN [c.heap EXCEPT ![VE].version = c.heap[VESTop].version]
                ELSE IF VESTop # NullPtr /\ IsFactor(c.heap[VESTop])
                     THEN [c.heap EXCEPT ![VE].version = n, ![VESTop].downSafe = FALSE]
                     ELSE [c.heap EXCEPT ![VE].version = n]
    IN [c EXCEPT !.heap = h1,
                 !.rc = IF same THEN MapInsert(@, PE, 0) ELSE MapPut(@, PE, n + 1),
                 !.stk = Push(st1, PE, <<SDFS, VE>>),
                 !.pushed = Append(@, VE),
                 !.trace = Append(@, [inst |-> I, stk |-> st1, top |-> VESTop,
                                      pushed |-> c.pushed])]

RECURSIVE RenameInsts(_, _, _)
RenameInsts(is, b, c) ==
    IF is = <<>> THEN c
    ELSE LET I == Head(is)
         IN IF IsTerminator(I) THEN RenameTerminator(I, b, c)
            ELSE LET e == c.heap[c.P.InstToVExpr[I]]
                 IN RenameInsts(Tail(is), b,
                        IF IsIgnored(e) \/ IsUnknown(e) THEN c ELSE RenameReal(I, c))

RenameBlock(b, c) ==
    LET B     == BlockPtr(cur, b)
        FSDFS == c.P.InstrSDFS[Head(BlockInsts(b))]
        c1    == [c EXCEPT !.P.BlockToFactors = MapInsert(@, B, <<>>)]
    IN RenameInsts(BlockInsts(b), b, RenameFactors(FactorsAt(c.P, B), FSDFS, c1))

RECURSIVE RenameWalk(_, _)
RenameWalk(i, c) ==
    IF i > Len(RPOT) \/ c.assertFail THEN c
    ELSE RenameWalk(i + 1, RenameBlock(RPOT[i], c))

\* The walk of a call, from the state Step 1 left.
RenameStart(h, Pm, r) ==
    [heap |-> h, P |-> Pm, rc |-> r, stk |-> EmptyMap,
     ubHru |-> {}, ubExit |-> FALSE, assertFail |-> FALSE,
     pushed |-> <<>>, trace |-> <<>>]

\* The factors of the heap whose DownSafe is (still) set.
DownSafeFactors(h) == { x \in DOMAIN h : IsFactor(h[x]) /\ h[x].downSafe }

\* What a read through the dangling reference may have produced: HasRealUse
\* TRUE in the slots G, and DownSafe cleared in the factors V that the value
\* read happened to point to.
WithGarbage(h, G, V) ==
    [x \in DOMAIN h |->
        IF ~IsFactor(h[x]) THEN h[x]
        ELSE [h[x] EXCEPT
                !.hru = [i \in DOMAIN @ |-> IF <<x, i>> \in G THEN TRUE ELSE @[i]],
                !.downSafe = IF x \in V THEN FALSE ELSE @]]

----------------------------------------------------------------------------
(* STEP 3: DownSafety (SSAPRE.cpp 417-442).  d is [heap, ub]; ub says that *)
(* classof was called on a null operand.                                   *)

RECURSIVE ResetDownSafety(_, _, _)
RECURSIVE ResetDownSafetyOperands(_, _, _)
ResetDownSafety(d, FE, ON) ==
    LET E == d.heap[FE].versions[ON]
    IN IF d.heap[FE].hru[ON] THEN d
       ELSE IF E = NullPtr THEN [d EXCEPT !.ub = TRUE]
       ELSE IF ~IsFactor(d.heap[E]) THEN d
       ELSE IF ~d.heap[E].downSafe THEN d
       ELSE ResetDownSafetyOperands([d EXCEPT !.heap[E].downSafe = FALSE], E, 1)

ResetDownSafetyOperands(d, F, i) ==
    IF i > Len(d.heap[F].versions) THEN d
    ELSE ResetDownSafetyOperands(ResetDownSafety(d, F, i), F, i + 1)

\* A faulty DownSafety that leaves the loop after the first factor, to see
\* that the statement about the iteration order tells it from the real one.
DownSafetyFirstOnly(fs, d) ==
    IF fs = <<>> \/ d.heap[Head(fs)].downSafe THEN d
    ELSE ResetDownSafetyOperands(d, Head(fs), 1)

RECURSIVE DownSafetyLoop(_, _)
DownSafetyLoop(fs, d) ==
    IF fs = <<>> THEN d
    ELSE DownSafetyLoop(Tail(fs),
            IF d.heap[Head(fs)].downSafe THEN d
            ELSE ResetDownSafetyOperands(d, Head(fs), 1))

DownSafety(h, Pm) == DownSafetyLoop(Pm.FExprs, [heap |-> h, ub |-> FALSE])

----------------------------------------------------------------------------
(* STEP 4: WillBeAvail (SSAPRE.cpp 444-501) *)

RECURSIVE ResetCanBeAvail(_, _, _)
RECURSIVE ResetCanBeAvailLoop(_, _, _, _)
ResetCanBeAvail(h, FExprs, G) ==
    ResetCanBeAvailLoop([h EXCEPT ![G].canBeAvail = FALSE], FExprs, FExprs, G)

ResetCanBeAvailLoop(h, fs, FExprs, G) ==
    IF fs = <<>> THEN h
    ELSE LET F == Head(fs)
             I == GetVExprIndex(h[F], G)
         IN IF I = 0 \/ h[F].hru[I] THEN ResetCanBeAvailLoop(h, Tail(fs), FExprs, G)
            ELSE LET h1 == [h EXCEPT ![F].versions[I] = BExprPtr]
                     h2 == IF ~h1[F].downSafe /\ h1[F].canBeAvail
                           THEN ResetCanBeAvail(h1, FExprs, F) ELSE h1
                 IN ResetCanBeAvailLoop(h2, Tail(fs), FExprs, G)

RECURSIVE ComputeCanBeAvailLoop(_, _, _)
ComputeCanBeAvailLoop(h, fs, FExprs) ==
    IF fs = <<>> THEN h
    ELSE LET F == Head(fs)
         IN ComputeCanBeAvailLoop(
                IF ~h[F].downSafe /\ h[F].canBeAvail /\ GetVExprIndex(h[F], BExprPtr) # 0
                THEN ResetCanBeAvail(h, FExprs, F) ELSE h,
                Tail(fs), FExprs)

ComputeCanBeAvail(h, Pm) == ComputeCanBeAvailLoop(h, Pm.FExprs, Pm.FExprs)

\* ResetLater without its loop over FExprs: Later of G alone is cleared.
ResetLaterOnly(h, FExprs, G) == [h EXCEPT ![G].later = FALSE]

RECURSIVE ResetLater(_, _, _)
RECURSIVE ResetLaterLoop(_, _, _, _)
ResetLater(h, FExprs, G) ==
    ResetLaterLoop([h EXCEPT ![G].later = FALSE], FExprs, FExprs, G)

ResetLaterLoop(h, fs, FExprs, G) ==
    IF fs = <<>> THEN h
    ELSE LET F == Head(fs)
         IN ResetLaterLoop(
                IF GetVExprIndex(h[F], G) # 0 /\ h[F].later
                THEN ResetLater(h, FExprs, F) ELSE h,
                Tail(fs), FExprs, G)

HasRealLiveOperand(f) ==
    \E i \in DOMAIN f.versions : f.hru[i] /\ f.versions[i] # BExprPtr

RECURSIVE ComputeLaterLoop(_, _, _)
ComputeLaterLoop(h, fs, FExprs) ==
    IF fs = <<>> THEN h
    ELSE LET F == Head(fs)
         IN ComputeLaterLoop(
                IF h[F].later /\ HasRealLiveOperand(h[F])
                THEN ResetLater(h, FExprs, F) ELSE h,
                Tail(fs), FExprs)

ComputeLater(h, Pm) ==
    LET h0 == [x \in DOMAIN h |->
                 IF x \in Range(Pm.FExprs) THEN [h[x] EXCEPT !.later = h[x].canBeAvail]
                 ELSE h[x]]
    IN ComputeLaterLoop(h0, Pm.FExprs, Pm.FExprs)

----------------------------------------------------------------------------
(* STEP 5: FinalizeVisit (SSAPRE.cpp 503-581).  c is [heap, P, ub, fn]; ub *)
(* says that DT->dominates was called with the null instruction of a       *)
(* factor, fn is the function whose blocks FinalizeVisit is handed by      *)
(* reference.  The terminator is skipped by the continue of line 528, so   *)
(* the branch of lines 545-579 is never entered and BlockToInserts is      *)
(* never written.                                                          *)

BlockOfInst(fn, I) ==
    IF IsTerminator(I) THEN (I % 100) - 80
    ELSE CHOOSE b \in DOMAIN fn.body : I \in Range(fn.body[b])

\* DominatorTree::dominates(const Instruction *Def, const Instruction *User)
InstDominates(fn, Def, Use) ==
    LET db == BlockOfInst(fn, Def)
        ub == BlockOfInst(fn, Use)
    IN IF db = ub
       THEN Def # Use /\ (IsTerminator(Use) \/
                IndexOf(fn.body[db], Def, 1) < IndexOf(fn.body[db], Use, 1))
       ELSE StrictlyDominates(db, ub)

AvailDefPut(m, PE, V, E) ==
    IF PE \in DOMAIN m THEN [m EXCEPT ![PE] = MapPut(@, V, E)]
    ELSE MapPut(m, PE, MapPut(EmptyMap, V, E))

RECURSIVE FinalizeFactors(_, _)
FinalizeFactors(fs, c) ==
    IF fs = <<>> THEN c
    ELSE LET F  == Head(fs)
             c1 == [c EXCEPT !.heap[F].save = FALSE, !.heap[F].reload = FALSE]
         IN FinalizeFactors(Tail(fs),
                IF WillBeAvailOf(c.heap[F])
                THEN [c1 EXCEPT !.P.AvailDef =
                          AvailDefPut(@, c.heap[F].pe, c.heap[F].version, F)]
                ELSE c1)

\* A faulty FinalizeVisit that erases the occurrence it visits, to see that
\* the statement about the steps before Step 6 tells it from the real one.
FinalizeRealErasing(I, c) ==
    [c EXCEPT !.heap[c.P.InstToVExpr[I]].save = FALSE,
              !.fn = EraseFromParent(@, I)]

\* A real occurrence.  ADE is a copy of AvailDef[PE] (auto, not auto &): the
\* assignment ADE[V] = VE is lost with it.
FinalizeReal(I, c) ==
    LET VE == c.P.InstToVExpr[I]
        PE == c.P.VExprToPExpr[VE]
        V  == c.heap[VE].version
        c1 == [c EXCEPT !.heap[VE].save = FALSE, !.heap[VE].reload = FALSE]
    IN IF ~MapHas(c.P.AvailDef, PE) THEN c1
       ELSE LET ADE == c.P.AvailDef[PE]
            IN IF ~MapHas(ADE, V) THEN c1
               ELSE LET Def == Lookup(c1.P.VExprToInst, ADE[V])
                        c2  == [c1 EXCEPT !.P.VExprToInst = MapInsert(@, ADE[V], NullPtr)]
                    IN IF Def = NullPtr THEN [c2 EXCEPT !.ub = TRUE]
                       ELSE IF InstDominates(c.fn, Def, I) THEN c2
                       ELSE IF IsBasic(c2.heap[ADE[V]])
                            THEN [c2 EXCEPT !.heap[ADE[V]].save = TRUE,
                                            !.heap[VE].reload = TRUE]
                            ELSE c2

RECURSIVE FinalizeInsts(_, _)
FinalizeInsts(is, c) ==
    IF is = <<>> THEN c
    ELSE LET I == Head(is)
         IN IF IsTerminator(I)
            THEN FinalizeInsts(Tail(is),
                    [c EXCEPT !.P.InstToVExpr = MapInsert(@, I, NullPtr),
                              !.P.VExprToPExpr = MapInsert(@, NullPtr, NullPtr)])
            ELSE LET e == c.heap[c.P.InstToVExpr[I]]
                 IN FinalizeInsts(Tail(is),
                        IF IsIgnored(e) \/ IsUnknown(e) THEN c ELSE FinalizeReal(I, c))

FinalizeVisit(b, c) ==
    LET B  == BlockPtr(cur, b)
        c1 == [c EXCEPT !.P.BlockToFactors = MapInsert(@, B, <<>>)]
    IN FinalizeInsts(BlockInsts(b), FinalizeFactors(FactorsAt(c.P, B), c1))

RECURSIVE FinalizeWalk(_, _)
FinalizeWalk(i, c) ==
    IF i > Len(RPOT) THEN c
    ELSE FinalizeWalk(i + 1, FinalizeVisit(RPOT[i], c))

----------------------------------------------------------------------------
(* STEP 6: CodeMotion (SSAPRE.cpp 583-712).  c is [heap, P, fn, stk, cnt,  *)
(* Changed, assertFail, ub, erased]: fn is the IR, stk and cnt the local   *)
(* PExprToVExprStack and PExprToCounter, assertFail says that an assert    *)
(* of the step does not hold, ub that the step read through a null or      *)
(* dangling pointer, erased lists the calls of eraseFromParent.            *)

RECURSIVE CodeMotionFactors(_, _, _)
CodeMotionFactors(fs, FSDFS, c) ==
    IF fs = <<>> THEN c
    ELSE LET FE == Head(fs)
             pe == c.heap[FE].pe
             n  == Lookup(c.cnt, pe)
         IN CodeMotionFactors(Tail(fs), FSDFS,
                [c EXCEPT !.heap[FE].version = n,
                          !.cnt = MapPut(@, pe, n + 1),
                          !.stk = Push(@, FE, <<FSDFS, FE>>)])

RECURSIVE CodeMotionSuccFactors(_, _, _)
CodeMotionSuccFactors(fs, B, c) ==
    IF fs = <<>> THEN c
    ELSE LET F   == Head(fs)
             pe  == c.heap[F].pe
             VES == StackOf(c.stk, pe)
             PI  == GetPredIndex(c.heap[F], B)
             c1  == [c EXCEPT !.stk = MapInsert(@, pe, <<>>)]
         IN IF PI = 0 THEN [c1 EXCEPT !.assertFail = TRUE, !.ub = TRUE]
            ELSE CodeMotionSuccFactors(Tail(fs), B,
                   [c1 EXCEPT !.heap[F].versions[PI] =
                                  IF VES = <<>> THEN BExprPtr ELSE TopOf(VES)])

RECURSIVE CodeMotionSuccessors(_, _, _)
CodeMotionSuccessors(ss, B, c) ==
    IF ss = <<>> THEN c
    ELSE LET S  == BlockPtr(cur, Head(ss))
             c1 == [c EXCEPT !.P.BlockToFactors = MapInsert(@, S, <<>>)]
         IN CodeMotionSuccessors(Tail(ss), B,
                CodeMotionSuccFactors(FactorsAt(c.P, S), B, c1))

\* for (auto F : FExprs): the first slot that holds VE is set to VESTop.
RetargetFactors(h, FExprs, VE, VESTop) ==
    [x \in DOMAIN h |->
        IF x \in Range(FExprs) /\ GetVExprIndex(h[x], VE) # 0
        THEN [h[x] EXCEPT !.versions[GetVExprIndex(h[x], VE)] = VESTop]
        ELSE h[x]]

\* The three branches of lines 644-664 for the occurrence VE of I.
CodeMotionSave(I, VE, PE, SDFS, c) ==
    [c EXCEPT !.stk = Push(@, PE, <<SDFS, VE>>)]

CodeMotionReload(I, VE, PE, SDFS, c) ==
    LET VES    == c.stk[PE]
        VESTop == IF VES = <<>> THEN NullPtr ELSE TopOf(VES)
    IN IF VESTop = NullPtr
       THEN [c EXCEPT !.assertFail = TRUE, !.ub = TRUE, !.Changed = TRUE,
                      !.P.VExprToInst = MapInsert(@, NullPtr, NullPtr)]
       ELSE LET RI == Lookup(c.P.VExprToInst, VESTop)
            IN [c EXCEPT !.assertFail = @ \/ ~c.heap[VESTop].save,
                         !.ub = @ \/ RI = NullPtr,
                         !.P.VExprToInst = MapInsert(@, VESTop, NullPtr),
                         !.fn = IF RI = NullPtr THEN @ ELSE RAUW(@, I, RI),
                         !.heap = RetargetFactors(@, c.P.FExprs, VE, VESTop),
                         !.Changed = TRUE]

\* A faulty last branch that does not record the change, to see that the
\* statement about the report tells it from the real one.
CodeMotionKillUnreported(I, VE, PE, SDFS, c) ==
    [c EXCEPT !.assertFail = @ \/ Users(c.fn, I) # {},
              !.P.KillList = SetInsert(@, I)]

CodeMotionKill(I, VE, PE, SDFS, c) ==
    [c EXCEPT !.assertFail = @ \/ Users(c.fn, I) # {},
              !.P.KillList = SetInsert(@, I),
              !.Changed = TRUE]

CodeMotionReal(I, c) ==
    LET VE   == c.P.InstToVExpr[I]
        PE   == c.P.VExprToPExpr[VE]
        SDFS == c.P.InstrSDFS[I]
        c1   == [c EXCEPT !.stk = Backtrace(MapInsert(@, PE, <<>>), SDFS)]
    IN IF c.heap[VE].save THEN CodeMotionSave(I, VE, PE, SDFS, c1)
       ELSE IF c.heap[VE].reload THEN CodeMotionReload(I, VE, PE, SDFS, c1)
       ELSE CodeMotionKill(I, VE, PE, SDFS, c1)

RECURSIVE CodeMotionInsts(_, _, _)
CodeMotionInsts(is, b, c) ==
    IF is = <<>> THEN c
    ELSE LET I == Head(is)
         IN IF IsTerminator(I)
            THEN CodeMotionSuccessors(Succ(b), BlockPtr(cur, b),
                    [c EXCEPT !.P.InstToVExpr = MapInsert(@, I, NullPtr),
                              !.P.VExprToPExpr = MapInsert(@, NullPtr, NullPtr)])
            ELSE LET e == c.heap[c.P.InstToVExpr[I]]
                 IN CodeMotionInsts(Tail(is), b,
                        IF IsIgnored(e) \/ IsUnknown(e) THEN c ELSE CodeMotionReal(I, c))

RECURSIVE CodeMotionWalk(_, _)
CodeMotionWalk(i, c) ==
    IF i > Len(RPOT) THEN c
    ELSE LET b     == RPOT[i]
             B     == BlockPtr(cur, b)
             FSDFS == c.P.InstrSDFS[Head(BlockInsts(b))]
             c1    == [c EXCEPT !.P.BlockToFactors = MapInsert(@, B, <<>>)]
         IN CodeMotionWalk(i + 1,
                CodeMotionInsts(BlockInsts(b), b,
                    CodeMotionFactors(FactorsAt(c.P, B), FSDFS, c1)))

\* for (auto I : KillList) I->eraseFromParent(): an entry that is not an
\* instruction of the function any more is a dangling pointer.
RECURSIVE KillThemAll(_, _)
KillThemAll(ks, c) ==
    IF ks = <<>> THEN c
    ELSE LET I == Head(ks)
         IN KillThemAll(Tail(ks),
                IF I \in DOMAIN c.fn.inst
                THEN [c EXCEPT !.fn = EraseFromParent(@, I), !.erased = Append(@, I)]
                ELSE [c EXCEPT !.ub = TRUE, !.erased = Append(@, I)])

\* The operands of a potential PHI (lines 683-693).
HasFactors(h, f) ==
    \E i \in DOMAIN f.versions : f.versions[i] # NullPtr /\ IsFactor(h[f.versions[i]])

HasSaved(h, f) ==
    \E i \in DOMAIN f.versions :
        f.versions[i] # NullPtr /\ ~IsFactor(h[f.versions[i]]) /\ h[f.versions[i]].save

HasDeleted(h, f) ==
    \E i \in DOMAIN f.versions :
        f.versions[i] # NullPtr /\ ~IsFactor(h[f.versions[i]]) /\ ~h[f.versions[i]].save

HasNullOperand(f) == \E i \in DOMAIN f.versions : f.versions[i] = NullPtr

\* Insert a PHI only if its operands are live (line 696).
InsertsPHI(h, f) == HasFactors(h, f) \/ HasSaved(h, f)

\* The address of a new instruction of the function.
NewInstPtr(c) ==
    InstPtr(cur, CHOOSE l \in 1 .. 79 :
        /\ InstPtr(cur, l) \notin (DOMAIN c.fn.inst) \cup Range(c.erased)
        /\ \A k \in 1 .. (l - 1) :
               InstPtr(cur, k) \in (DOMAIN c.fn.inst) \cup Range(c.erased))

\* Builder.CreatePHI before the terminator of B, then setIncomingValue(i, ..)
\* for every slot from the stack of the prototype as the walk left it.
CreatePHI(F, c) ==
    LET f      == c.heap[F]
        b      == LocalBlock(f.bb)
        VES    == StackOf(c.stk, f.pe)
        VESTop == IF VES = <<>> THEN NullPtr ELSE TopOf(VES)
        val    == IF VESTop = NullPtr THEN NullPtr ELSE Lookup(c.P.VExprToInst, VESTop)
        phi    == [opc |-> OpPHI, pred |-> 0, ty |-> c.heap[f.pe].ty,
                   ops |-> [i \in DOMAIN f.versions |-> val]]
        new    == NewInstPtr(c)
    IN IF FnOfBlock(f.bb) # cur THEN [c EXCEPT !.ub = TRUE, !.Changed = TRUE]
       ELSE [c EXCEPT
               !.assertFail = @ \/ HasDeleted(c.heap, f) \/ Len(f.versions) > 0,
               !.ub = @ \/ val = NullPtr,
               !.stk = MapInsert(@, f.pe, <<>>),
               !.P.VExprToInst = IF VESTop = NullPtr THEN @ ELSE MapInsert(@, VESTop, NullPtr),
               !.fn.body[b] = Append(@, new),
               !.fn.inst = MapPut(@, new, phi),
               !.Changed = TRUE]

RECURSIVE InsertPHIs(_, _)
InsertPHIs(fs, c) ==
    IF fs = <<>> THEN c
    ELSE LET F  == Head(fs)
             c1 == IF HasNullOperand(c.heap[F]) THEN [c EXCEPT !.ub = TRUE] ELSE c
         IN InsertPHIs(Tail(fs),
                IF InsertsPHI(c1.heap, c1.heap[F]) THEN CreatePHI(F, c1) ELSE c1)

AllBlockFactors(Pm) ==
    Flatten([k \in DOMAIN SetToSeq(DOMAIN Pm.BlockToFactors) |->
                Pm.BlockToFactors[SetToSeq(DOMAIN Pm.BlockToFactors)[k]]])

CodeMotion(h, Pm, fn) ==
    LET c0 == [heap |-> h, P |-> Pm, fn |-> fn, stk |-> EmptyMap,
               cnt |-> [pe \in DOMAIN Pm.PExprToInsts |-> 1],
               Changed |-> FALSE, assertFail |-> FALSE, ub |-> FALSE, erased |-> <<>>]
        c1 == CodeMotionWalk(1, c0)
        c2 == KillThemAll(c1.P.KillList, c1)
    IN InsertPHIs(AllBlockFactors(c2.P), c2)

----------------------------------------------------------------------------
(* The state machine: one call of runImpl after another *)

\* The source programs: at most MaxInsts expression instructions, listed in
\* the order of their blocks, all arithmetic or all comparisons, and their
\* values all used or all unused.
Programs ==
    { pg \in UNION { [1 .. n -> Items] : n \in 0 .. MaxInsts } :
        /\ \A k \in DOMAIN pg : pg[k].blk \in Blocks
        /\ \A k \in DOMAIN pg : k = 1 \/ pg[k - 1].blk <= pg[k].blk
        /\ \A j, k \in DOMAIN pg :
              /\ pg[j].used = pg[k].used
              /\ IsCmp(Templates[pg[j].tmpl].opc) = IsCmp(Templates[pg[k].tmpl].opc)
        /\ \A k \in DOMAIN pg : Templates[pg[k].tmpl].phis = 0 }

\* What a completed call leaves for the comparison with the next one.
Output == [ir |-> ir, report |-> report, erased |-> erasedLog]

Init ==
    /\ cfg \in DOMAIN CFGs
    /\ analyses = AnalysesOf(cfg)
    /\ prog \in Programs
    /\ asserts \in BOOLEAN
    /\ cur = 1
    /\ run = 1
    /\ reused = FALSE
    /\ pc = "collect"
    /\ ir = BuildIR(1, NumBlocks, prog)
    /\ irIn = ir
    /\ outPrev = [ir |-> ir, report |-> "", erased |-> <<>>]
    /\ report = ""
    /\ heap = <<BExprObj>>
    /\ P = FreshP
    /\ stk = EmptyMap
    /\ rc = EmptyMap
    /\ erasedLog = <<>>
    /\ calls = <<>>
    /\ writer = NewWriter

\* What a step may end in: it goes on, or, when it read through a null or
\* dangling pointer, the process may be killed.
Outcomes(ub) == IF ub THEN {"goes on", "crashed"} ELSE {"goes on"}

\* runImpl 718-836.
Collect ==
    /\ pc = "collect"
    /\ LET c == Prologue([heap |-> heap, P |-> P, rc |-> EmptyMap])
       IN /\ heap' = c.heap
          /\ P' = c.P
          /\ rc' = c.rc
    /\ stk' = EmptyMap
    /\ pc' = "f-insertion"
    /\ UNCHANGED <<writer, calls, cfg, analyses, prog, asserts, cur, run, reused, ir, irIn, outPrev,
                   report, erasedLog>>

\* runImpl 838-880.
FInsertion ==
    /\ pc = "f-insertion"
    /\ LET c == FactorInsertion([heap |-> heap, P |-> P])
       IN /\ heap' = c.heap
          /\ P' = c.P
    /\ pc' = "rename"
    /\ UNCHANGED <<writer, calls, cfg, analyses, prog, asserts, cur, run, reused, ir, irIn, outPrev,
                   report, stk, rc, erasedLog>>

\* Step 2 (runImpl 884-1003).  A slot whose HasRealUse was read through the
\* reference to the top of an empty stack holds any value; the exit loop that
\* took the top of an empty stack may have cleared DownSafe anywhere.
Rename ==
    /\ pc = "rename"
    /\ LET c == RenameWalk(1, RenameStart(heap, P, rc))
       IN IF c.assertFail
          THEN /\ pc' = IF asserts THEN "aborted" ELSE "crashed"
               /\ UNCHANGED <<heap, P, rc, stk>>
          ELSE \E o \in Outcomes(c.ubHru # {} \/ c.ubExit) :
                  IF o = "crashed"
                  THEN /\ pc' = "crashed"
                       /\ UNCHANGED <<heap, P, rc, stk>>
                  ELSE \E G \in SUBSET c.ubHru :
                       \E V \in SUBSET (IF c.ubExit THEN DownSafeFactors(c.heap) ELSE {}) :
                          /\ heap' = WithGarbage(c.heap, G, V)
                          /\ P' = c.P
                          /\ rc' = c.rc
                          /\ stk' = c.stk
                          /\ pc' = "down-safety"
    /\ UNCHANGED <<writer, calls, cfg, analyses, prog, asserts, cur, run, reused, ir, irIn, outPrev,
                   report, erasedLog>>

\* Step 3 (runImpl 1007-1008).
DownSafetyStep ==
    /\ pc = "down-safety"
    /\ LET d == DownSafety(heap, P)
       IN \E o \in Outcomes(d.ub) :
            IF o = "crashed"
            THEN pc' = "crashed" /\ heap' = heap
            ELSE pc' = "will-be-avail" /\ heap' = d.heap
    /\ UNCHANGED <<writer, calls, cfg, analyses, prog, asserts, cur, run, reused, ir, irIn, outPrev,
                   report, P, stk, rc, erasedLog>>

\* Step 4: WillBeAvail() is ComputeCanBeAvail(); ComputeLater() (497-501).
WillBeAvail ==
    /\ pc = "will-be-avail"
    /\ heap' = ComputeLater(ComputeCanBeAvail(heap, P), P)
    /\ pc' = "finalize"
    /\ UNCHANGED <<writer, calls, cfg, analyses, prog, asserts, cur, run, reused, ir, irIn, outPrev,
                   report, P, stk, rc, erasedLog>>

\* Step 5: FinalizeVisit for every block of RPOT (runImpl 1017-1019).
Finalize ==
    /\ pc = "finalize"
    /\ LET c == FinalizeWalk(1, [heap |-> heap, P |-> P, ub |-> FALSE, fn |-> ir])
       IN \E o \in Outcomes(c.ub) :
            IF o = "crashed"
            THEN pc' = "crashed" /\ UNCHANGED <<heap, P, ir>>
            ELSE /\ heap' = c.heap
                 /\ P' = c.P
                 /\ ir' = c.fn
                 /\ pc' = "code-motion"
    /\ UNCHANGED <<writer, calls, cfg, analyses, prog, asserts, cur, run, reused, irIn, outPrev,
                   report, stk, rc, erasedLog>>

\* Step 6 and the return of runImpl (1024-1032).
CodeMotionStep ==
    /\ pc = "code-motion"
    /\ LET c == CodeMotion(heap, P, ir)
       IN IF c.assertFail /\ asserts
          THEN pc' = "aborted" /\ UNCHANGED <<ir, heap, P, report, erasedLog>>
          ELSE \E o \in Outcomes(c.ub) :
                 IF o = "crashed"
                 THEN pc' = "crashed" /\ UNCHANGED <<ir, heap, P, report, erasedLog>>
                 ELSE /\ ir' = c.fn
                      /\ heap' = c.heap
                      /\ P' = c.P
                      /\ erasedLog' = c.erased
                      /\ report' = IF c.Changed THEN "none" ELSE "all"
                      /\ pc' = "done"
    /\ UNCHANGED <<writer, calls, cfg, analyses, prog, asserts, cur, run, reused, irIn, outPrev, stk, rc>>

\* A new pass object is run on the function the last call left.
RunAgainFresh ==
    /\ pc = "done"
    /\ run < MaxRuns
    /\ run' = run + 1
    /\ reused' = FALSE
    /\ outPrev' = Output
    /\ irIn' = ir
    /\ heap' = <<BExprObj>>
    /\ P' = FreshP
    /\ stk' = EmptyMap
    /\ rc' = EmptyMap
    /\ erasedLog' = <<>>
    /\ report' = ""
    /\ pc' = "collect"
    /\ UNCHANGED <<writer, calls, cfg, analyses, prog, asserts, cur, ir>>

\* SSAPRELegacy::runOnFunction (1062-1070): the same Impl is run on the next
\* function of the module, a copy of the source program at other addresses.
RunOnNextFunction ==
    /\ pc = "done"
    /\ run < MaxRuns
    /\ run' = run + 1
    /\ reused' = TRUE
    /\ cur' = cur + 1
    /\ outPrev' = Output
    /\ ir' = BuildIR(cur + 1, NumBlocks, prog)
    /\ irIn' = ir'
    /\ erasedLog' = <<>>
    /\ report' = ""
    /\ pc' = "collect"
    /\ UNCHANGED <<writer, calls, cfg, analyses, prog, asserts, heap, P, stk, rc>>

Next ==
    \/ Collect
    \/ FInsertion
    \/ Rename
    \/ DownSafetyStep
    \/ WillBeAvail
    \/ Finalize
    \/ CodeMotionStep
    \/ RunAgainFresh
    \/ RunOnNextFunction

Spec == Init /\ [][Next]_vars

----------------------------------------------------------------------------
(* What the statements below observe of a function *)

\* The call of runImpl has returned.
Done == pc = "done"

\* A pure scalar expression: an arithmetic instruction or a comparison.
IsPureExpr(i) == IsBinaryOp(i.opc) \/ IsCmp(i.opc)

\* Two instructions compute the same expression: the same opcode, predicate
\* and operands, or the operands of a commutative opcode exchanged, or the
\* mirror image of a comparison.
SameExpr(a, b) ==
    /\ a.opc = b.opc
    /\ a.ty = b.ty
    /\ \/ a.pred = b.pred /\ a.ops = b.ops
       \/ IsCommutative(a.opc) /\ a.ops = Reverse(b.ops)
       \/ IsCmp(a.opc) /\ a.pred = SwappedPredicate(b.pred) /\ a.ops = Reverse(b.ops)

\* The paths through the CFG from the entry block, of at most n blocks.
RECURSIVE PathsFrom(_, _)
PathsFrom(b, n) ==
    IF n = 1 THEN { <<b>> }
    ELSE { <<b>> } \cup
         { <<b>> \o q : q \in UNION { PathsFrom(t, n - 1) : t \in Range(Succ(b)) } }

\* Every block at most twice.
Paths == PathsFrom(1, 2 * NumBlocks)

\* The pure-expression instructions function fn executes on path q.
EvalsOn(fn, q) ==
    Flatten([k \in DOMAIN q |->
        SelectSeq(fn.body[q[k]],
                  LAMBDA i : i \in DOMAIN fn.inst /\ IsPureExpr(fn.inst[i]))])

EvalCount(fn, q) == Len(EvalsOn(fn, q))

\* The value operand v of a use has in F' is the value operand w had in F:
\* the same argument, or a surviving instruction that computes what w computed,
\* or a PHI that merges such instructions.
RECURSIVE SameValue(_, _, _, _)
SameValue(F2, v, F1, w) ==
    IF IsArgument(v) \/ IsArgument(w) THEN v = w
    ELSE /\ v \in DOMAIN F2.inst
         /\ w \in DOMAIN F1.inst
         /\ IF F2.inst[v].opc = OpPHI /\ F1.inst[w].opc # OpPHI
            THEN /\ F2.inst[v].ops # <<>>
                 /\ \A k \in DOMAIN F2.inst[v].ops :
                       /\ ~IsArgument(F2.inst[v].ops[k])
                       /\ F2.inst[v].ops[k] # v
                       /\ SameValue(F2, F2.inst[v].ops[k], F1, w)
            ELSE \/ v = w
                 \/ SameExpr(F2.inst[v], F1.inst[w])

\* C1: the function a call of runImpl leaves is observationally equivalent to
\* the function it was given: every instruction that survives was there
\* before and each of its operands has the value it had, and on no path does
\* the output evaluate an expression that the input did not evaluate on it.
C1_ObservationalEquivalence ==
    Done =>
        /\ \A u \in DOMAIN ir.inst :
              \/ ir.inst[u].opc = OpPHI
              \/ /\ u \in DOMAIN irIn.inst
                 /\ \A k \in DOMAIN ir.inst[u].ops :
                       SameValue(ir, ir.inst[u].ops[k], irIn, irIn.inst[u].ops[k])
        /\ \A q \in Paths :
              \A i \in Range(EvalsOn(ir, q)) :
                 \E j \in Range(EvalsOn(irIn, q)) : SameExpr(ir.inst[i], irIn.inst[j])

\* C2: on every path through the CFG the output of a call of runImpl executes
\* at most as many pure-expression evaluations as its input did.
C2_NoLengthening ==
    Done => \A q \in Paths : EvalCount(ir, q) <= EvalCount(irIn, q)

\* A call has returned and left a path with fewer evaluations than it had.
C2_ShorterPath ==
    Done /\ \E q \in Paths : EvalCount(ir, q) < EvalCount(irIn, q)

\* The definition of value v is available where instruction u uses it as
\* operand k: v is an argument, or an instruction of the function that
\* dominates u, or for a PHI the end of the k-th predecessor of its block.
DefDominatesUse(fn, v, u, k) ==
    \/ IsArgument(v)
    \/ /\ v \in DOMAIN fn.inst
       /\ IF fn.inst[u].opc = OpPHI
          THEN /\ k <= Len(Preds(BlockOfInst(fn, u)))
               /\ BlockDominates(BlockOfInst(fn, v), Preds(BlockOfInst(fn, u))[k])
          ELSE v # u /\ InstDominates(fn, v, u)

\* C3: after a call of runImpl every use is dominated by its definition, and
\* no instruction that survives uses an erased instruction.
C3_SSAPreserved ==
    Done =>
        \A u \in DOMAIN ir.inst :
           \A k \in DOMAIN ir.inst[u].ops :
              /\ ir.inst[u].ops[k] \notin Range(erasedLog)
              /\ DefDominatesUse(ir, ir.inst[u].ops[k], u, k)

----------------------------------------------------------------------------
(* The scenarios of the specification.  Block 1 is A; in the diamond and   *)
(* the split 2 is B and 3 is C, and 4 is the join D of the diamond.        *)

\* x + y, its value used by a call.
UsedAdd(b) == [blk |-> b, tmpl |-> 1, used |-> TRUE]

\* The first call of runImpl, on the function built from program pg in CFG g.
FirstRunOn(g, pg) == run = 1 /\ cfg = g /\ prog = pg

\* The expression instruction and the call of item k of the program.
ExprOf(k) == InstPtr(cur, (2 * k) - 1)

UseOf(k) == InstPtr(cur, 2 * k)

\* Instructions i and j are grouped under one prototype key.
Grouped(i, j) ==
    \E PE \in DOMAIN P.PExprToInsts : {i, j} \subseteq Range(P.PExprToInsts[PE])

\* The expressions of the function have been collected.
Collected == pc \notin {"collect"}

\* C4: in the diamond with t1 = x + y in B and t2 = x + y in D the call
\* inserts x + y at the end of C, creates a PHI at D that merges t1 and the
\* inserted instruction, and redirects the uses of t2 to the PHI.
C4_DiamondPRE ==
    (FirstRunOn(4, <<UsedAdd(2), UsedAdd(4)>>) /\ Done) =>
        \E n \in DOMAIN ir.inst, phi \in DOMAIN ir.inst :
           /\ n \notin DOMAIN irIn.inst
           /\ SameExpr(ir.inst[n], irIn.inst[ExprOf(1)])
           /\ ir.body[3] # <<>> /\ ir.body[3][Len(ir.body[3])] = n
           /\ phi \in Range(ir.body[4])
           /\ ir.inst[phi].opc = OpPHI
           /\ Range(ir.inst[phi].ops) = {ExprOf(1), n}
           /\ ExprOf(1) \in DOMAIN ir.inst
           /\ ir.inst[UseOf(2)].ops = <<phi>>

\* C5: with t1 = x + y in A and t2 = x + y in its only successor B the two
\* instructions are grouped under one prototype and get one version, every
\* use of t2 is redirected to t1, t2 is removed and nothing is inserted.
C5_FullRedundancy ==
    FirstRunOn(2, <<UsedAdd(1), UsedAdd(2)>>) =>
        /\ Collected => Grouped(ExprOf(1), ExprOf(2))
        /\ pc \in {"down-safety", "will-be-avail", "finalize", "code-motion", "done"} =>
              heap[P.InstToVExpr[ExprOf(1)]].version = heap[P.InstToVExpr[ExprOf(2)]].version
        /\ Done =>
              /\ ExprOf(1) \in DOMAIN ir.inst
              /\ ExprOf(2) \notin DOMAIN ir.inst
              /\ ir.inst[UseOf(2)].ops = <<ExprOf(1)>>
              /\ ir.inst[UseOf(1)].ops = <<ExprOf(1)>>
              /\ DOMAIN ir.inst \subseteq DOMAIN irIn.inst
              /\ P.BlockToInserts = EmptyMap

\* The only occurrence of its expression, with a live use.
OnlyOccurrence(fn, i) ==
    /\ IsPureExpr(fn.inst[i])
    /\ Users(fn, i) # {}
    /\ \A j \in DOMAIN fn.inst : SameExpr(fn.inst[i], fn.inst[j]) => j = i

\* C6: when x + y occurs on one branch of a split only, the call changes
\* nothing and reports that it preserved everything; in general the only
\* occurrence of an expression is left in place.
C6_NoChangeWithoutRedundancy ==
    Done =>
        /\ FirstRunOn(3, <<UsedAdd(2)>>) =>
              ir = irIn /\ report = "all" /\ erasedLog = <<>>
        /\ \A i \in DOMAIN irIn.inst :
              OnlyOccurrence(irIn, i) => i \in DOMAIN ir.inst /\ ir.inst[i] = irIn.inst[i]

\* C7: 'op x, y' and 'op y, x' of a commutative opcode and one type are
\* grouped under one prototype key of PExprToInsts.
C7_CommutativeCanonicalization ==
    Collected =>
        \A i, j \in DOMAIN irIn.inst :
           ( /\ IsCommutative(irIn.inst[i].opc)
             /\ irIn.inst[j].opc = irIn.inst[i].opc
             /\ irIn.inst[j].ty = irIn.inst[i].ty
             /\ irIn.inst[j].ops = Reverse(irIn.inst[i].ops) ) => Grouped(i, j)

\* C8: a comparison and its mirror image are built as Basic expressions with
\* the opcode (raw opcode << 8) | predicate, and have one prototype.
C8_CompareSwap ==
    Collected =>
        \A i, j \in DOMAIN irIn.inst :
           ( /\ IsCmp(irIn.inst[i].opc)
             /\ IsCmp(irIn.inst[j].opc)
             /\ irIn.inst[j].pred = SwappedPredicate(irIn.inst[i].pred)
             /\ irIn.inst[j].ops = Reverse(irIn.inst[i].ops) ) =>
               /\ heap[P.InstToVExpr[i]].et = "Basic"
               /\ heap[P.InstToVExpr[j]].et = "Basic"
               /\ heap[P.InstToVExpr[i]].opcode \in
                     { (OpICmp * 256) + irIn.inst[i].pred, (OpICmp * 256) + irIn.inst[j].pred }
               /\ heap[P.InstToVExpr[i]].opcode = heap[P.InstToVExpr[j]].opcode
               /\ Grouped(i, j)

\* The function with every address reduced to its offset in the function.
Normal(fn) ==
    [body |-> [b \in DOMAIN fn.body |-> [k \in DOMAIN fn.body[b] |-> fn.body[b][k] % 100]],
     insts |-> { [id |-> i % 100, opc |-> fn.inst[i].opc, pred |-> fn.inst[i].pred,
                  ty |-> fn.inst[i].ty,
                  ops |-> [k \in DOMAIN fn.inst[i].ops |-> fn.inst[i].ops[k] % 100]]
                 : i \in DOMAIN fn.inst }]

\* C9: a call of runImpl of a new pass object on the function that a call
\* left changes nothing and reports that it preserved everything.
C9_Idempotent ==
    (Done /\ run > 1 /\ ~reused) => (ir = irIn /\ report = "all")

\* A second call on the output of a first call that changed its function.
C9_SecondRunAfterChange ==
    Done /\ run = 2 /\ ~reused /\ outPrev.report = "none" /\ outPrev.erased # <<>>

\* C10: a call on a function G with the pass object that processed function
\* F before gives the IR and the report that a call with a new pass object
\* gives on G, and applies nothing of the earlier call: the instructions it
\* erases are instructions of G.
C10_NoStateCarriedOver ==
    (Done /\ reused) =>
        /\ \A i \in Range(erasedLog) \cup Range(P.KillList) : i \div 100 = cur
        /\ run = 2 =>
              /\ Normal(ir) = Normal(outPrev.ir)
              /\ report = outPrev.report

----------------------------------------------------------------------------
(* The steps of a call and what they may write *)

\* The positions of runImpl from Step 1 to the entry of Step 6.
BeforeCodeMotion ==
    pc \in {"f-insertion", "rename", "down-safety", "will-be-avail", "finalize",
            "code-motion"}

\* C11: Steps 1 to 5 leave the IR of the function as the call found it: up to
\* the entry of Step 6 no instruction has been erased, created, moved or had
\* an operand rewritten.
C11_StepsOneToFiveKeepIR == BeforeCodeMotion => ir = irIn

\* Step 6 is about to start on a function with real occurrences, after Steps
\* 1 to 5 inserted a factor and Finalize cleared the Save flag of an
\* occurrence.
C11_GraphWrittenIRKept ==
    /\ pc = "code-motion"
    /\ P.FExprs # <<>>
    /\ \E I \in DOMAIN ir.inst :
          /\ I \in DOMAIN P.InstToVExpr
          /\ heap[P.InstToVExpr[I]].et = "Basic"
          /\ ~heap[P.InstToVExpr[I]].save

\* C12: runImpl returns 'all preserved' exactly when Step 6 erased nothing,
\* rewrote no use, created no PHI and inserted nothing, and 'none preserved'
\* otherwise.
C12_ReportTellsChange ==
    Done =>
        /\ report \in {"all", "none"}
        /\ report = "all" <=> (ir = irIn /\ erasedLog = <<>>)

\* A call that erased an instruction has returned 'none preserved'.
C12_ChangeReported == Done /\ report = "none" /\ erasedLog # <<>> /\ ir # irIn

\* The occurrence of instruction I is inert: Unknown or Ignored.
InertInst(I) ==
    /\ I \in DOMAIN irIn.inst
    /\ I \in DOMAIN P.InstToVExpr
    /\ heap[P.InstToVExpr[I]].et \in {"Unknown", "Ignored"}

\* C15: an instruction whose occurrence is Unknown or Ignored has no factor
\* for its prototype, never gets a version, has the Save and Reload flags it
\* was constructed with, is never on the kill list, and stays in the function
\* with the users it had.
C15_InertExcluded ==
    \A I \in DOMAIN irIn.inst :
       InertInst(I) =>
          LET VE == P.InstToVExpr[I]
              PE == P.VExprToPExpr[VE]
          IN /\ \A x \in DOMAIN heap : heap[x].et = "Factor" => heap[x].pe # PE
             /\ heap[VE].version = -1 /\ heap[PE].version = -1
             /\ heap[VE].save /\ ~heap[VE].reload
             /\ I \notin Range(P.KillList)
             /\ I \notin Range(erasedLog)
             /\ I \in DOMAIN ir.inst
             /\ ir.inst[I] = irIn.inst[I]
             /\ Users(ir, I) = Users(irIn, I)

\* A call has returned that met an Ignored and an Unknown occurrence and
\* erased another instruction.
C15_InertSurvivesErasure ==
    /\ Done
    /\ erasedLog # <<>>
    /\ \E I, J \in DOMAIN irIn.inst :
          /\ InertInst(I) /\ heap[P.InstToVExpr[I]].et = "Ignored"
          /\ InertInst(J) /\ heap[P.InstToVExpr[J]].et = "Unknown"

\* C16: a structural violation is detected by an assertion before it is
\* acted upon: a step that meets a predecessor index that is not found, a
\* reload with an empty stack or an unsaved top, or a dead occurrence that
\* still has uses ends the call by abort.
C16_ViolationsAbort ==
    [][ /\ (pc = "rename" /\ RenameWalk(1, RenameStart(heap, P, rc)).assertFail)
            => pc' = "aborted"
        /\ (pc = "code-motion" /\ CodeMotion(heap, P, ir).assertFail)
            => pc' = "aborted" ]_vars

----------------------------------------------------------------------------
(* Step 2 observed *)

\* The position of occurrence E dominates instruction I: a factor stands at
\* the head of its block, a real occurrence at its instruction.
OccDominates(h, Pm, E, I) ==
    IF h[E].et = "Factor"
    THEN BlockDominates(LocalBlock(h[E].bb), BlockOfInst(ir, I))
    ELSE E \in DOMAIN Pm.VExprToInst /\ InstDominates(ir, Pm.VExprToInst[E], I)

\* C17: right after the backtrace for a real occurrence I, every entry left
\* on a stack is an occurrence that dominates I, and every occurrence pushed
\* before that dominates I is still on its stack.
C17_BacktraceKeepsDominators ==
    pc = "rename" =>
        LET c == RenameWalk(1, RenameStart(heap, P, rc))
        IN \A n \in DOMAIN c.trace :
              LET t == c.trace[n]
                  on == UNION { { t.stk[k][j][2] : j \in DOMAIN t.stk[k] } : k \in DOMAIN t.stk }
              IN /\ \A E \in on : OccDominates(c.heap, c.P, E, t.inst)
                 /\ \A E \in Range(t.pushed) :
                       OccDominates(c.heap, c.P, E, t.inst) => E \in on

\* The factors at the blocks of the function of this call.
FactorsOfCur ==
    { F \in DOMAIN heap : heap[F].et = "Factor" /\ FnOfBlock(heap[F].bb) = cur
                          /\ F \in Range(FactorsAt(P, heap[F].bb)) }

\* The real occurrences of prototype pe in block b, in program order.
OccurrencesIn(pe, b) ==
    SelectSeq(ir.body[b],
              LAMBDA I : /\ I \in DOMAIN P.InstToVExpr
                         /\ P.VExprToPExpr[P.InstToVExpr[I]] = pe)

\* Renaming has just ended and the call goes on.
Renamed == pc = "down-safety"

\* C18: a factor F at block B is pushed on the stack of its prototype, not
\* on another one, and the first real occurrence of the prototype in B takes
\* the version of F.
C18_FactorOnPrototypeStack ==
    Renamed =>
        \A F \in FactorsOfCur :
           LET occ == OccurrencesIn(heap[F].pe, LocalBlock(heap[F].bb))
           IN /\ F \notin DOMAIN stk
              /\ heap[F].version >= 0
              /\ occ # <<>> => heap[P.InstToVExpr[occ[1]]].version = heap[F].version

\* C19: after renaming every operand slot of every factor is assigned: it
\* holds an occurrence of the prototype of the factor or Bottom, and its
\* HasRealUse is set exactly when it holds a real occurrence.
C19_EverySlotAssigned ==
    Renamed =>
        \A F \in FactorsOfCur :
           \A i \in DOMAIN heap[F].versions :
              LET O == heap[F].versions[i]
              IN /\ O # NullPtr
                 /\ \/ O = BExprPtr
                    \/ Lookup(P.VExprToPExpr, O) = heap[F].pe
                    \/ heap[O].et = "Factor" /\ heap[O].pe = heap[F].pe
                 /\ heap[F].hru[i] <=> heap[O].et \in {"Basic", "Phi"}

\* Block b holds a real occurrence of prototype pe; a factor of pe stands
\* at block b.
OccursIn(pe, b) == OccurrencesIn(pe, b) # <<>>

HasFactorOf(pe, b) ==
    \E F \in Range(FactorsAt(P, BlockPtr(cur, b))) : heap[F].pe = pe

\* The blocks a path from a block of S reaches before it meets an occurrence
\* of pe or a new factor of pe.
RECURSIVE UnusedFrom(_, _)
UnusedFrom(pe, S) ==
    LET N == S \cup { t \in Blocks :
                        /\ ~HasFactorOf(pe, t)
                        /\ \E p \in S : ~OccursIn(pe, p) /\ t \in Range(Succ(p)) }
    IN IF N = S THEN S ELSE UnusedFrom(pe, N)

\* Every path from factor F to an exit meets a real occurrence of the
\* prototype of F before the exit and before another factor of it.
Anticipated(F) ==
    LET pe == heap[F].pe
    IN \A p \in UnusedFrom(pe, {LocalBlock(heap[F].bb)}) :
          \/ OccursIn(pe, p)
          \/ /\ Succ(p) # <<>>
             /\ \A t \in Range(Succ(p)) : ~HasFactorOf(pe, t)

\* C20: after Step 3 a factor is down-safe exactly when its value is
\* anticipated on every path to an exit.
C20_DownSafeIsAnticipation ==
    pc = "will-be-avail" =>
        \A F \in FactorsOfCur : heap[F].downSafe <=> Anticipated(F)

----------------------------------------------------------------------------
(* Steps 3 and 4 on their own.  DownSafety, ComputeCanBeAvail and          *)
(* ComputeLater read nothing but FExprs and the factors, so they are run   *)
(* here on every factor graph of MaxFactors factors: the heap holds BExpr, *)
(* one prototype, one real occurrence of it and the factors; an operand    *)
(* slot holds Bottom, the real occurrence or a factor, and HasRealUse is   *)
(* set where it holds the real occurrence, as Step 2 sets it.  FExprs is a *)
(* SmallPtrSet: the order of 'for (auto F : FExprs)' is any order.         *)

FGProto == BExprPtr + 1

FGReal == FGProto + 1

FGFactor(k) == FGReal + k

FGFactors == [k \in 1 .. MaxFactors |-> FGFactor(k)]

\* The predecessors of the block of factor k: two for the first two factors,
\* one for the others.
FGSlots(k) == IF k <= 2 THEN 2 ELSE 1

FGOperands == {BExprPtr, FGReal} \cup Range(FGFactors)

FGOperandLists ==
    { vs \in [1 .. MaxFactors -> UNION { [1 .. n -> FGOperands] : n \in 1 .. 2 }] :
        \A k \in 1 .. MaxFactors : Len(vs[k]) = FGSlots(k) }

FGFactorObj(k, vs, ds) ==
    [MkFactor(FGProto, BlockPtr(1, k), [i \in 1 .. FGSlots(k) |-> BlockPtr(1, i)]) EXCEPT
        !.version = k - 1,
        !.versions = vs,
        !.hru = [i \in DOMAIN vs |-> vs[i] = FGReal],
        !.downSafe = ds]

FGHeap(vs, ds) ==
    <<BExprObj,
      [MkExpr("Basic", OpAdd, TRUE) EXCEPT !.ty = "i32"],
      [MkExpr("Basic", OpAdd, TRUE) EXCEPT !.ty = "i32", !.version = MaxFactors]>>
    \o [k \in 1 .. MaxFactors |-> FGFactorObj(k, vs[k], ds[k])]

\* The state after Step 2 as far as Steps 3 and 4 read it.
FGInit ==
    /\ cfg = 1
    /\ analyses = AnalysesOf(1)
    /\ prog = <<>>
    /\ asserts = FALSE
    /\ cur = 1
    /\ run = 1
    /\ reused = FALSE
    /\ ir = BuildIR(1, 1, <<>>)
    /\ irIn = ir
    /\ outPrev = [ir |-> ir, report |-> "", erased |-> <<>>]
    /\ report = ""
    /\ \E vs \in FGOperandLists, ds \in [1 .. MaxFactors -> BOOLEAN] :
          heap = FGHeap(vs, ds)
    /\ P = [FreshP EXCEPT !.FExprs = FGFactors]
    /\ stk = EmptyMap
    /\ rc = EmptyMap
    /\ erasedLog = <<>>
    /\ calls = <<>>
    /\ writer = NewWriter
    /\ pc = "fg-down-safety"

\* The orders a loop over the set fs may take.
RECURSIVE Orders(_)
Orders(S) ==
    IF S = {} THEN { <<>> }
    ELSE UNION { { <<x>> \o o : o \in Orders(S \ {x}) } : x \in S }

FGRest == <<cfg, analyses, prog, asserts, cur, run, reused, ir, irIn, outPrev,
            report, P, stk, rc, erasedLog, calls, writer>>

\* DownSafety() (434-442) under one order of FExprs.
FGDownSafety ==
    /\ pc = "fg-down-safety"
    /\ \E o \in Orders(Range(P.FExprs)) :
          heap' = DownSafety(heap, [P EXCEPT !.FExprs = o]).heap
    /\ pc' = "fg-can-be-avail"
    /\ UNCHANGED FGRest

\* ComputeCanBeAvail() (444-453) under one order of FExprs.
FGComputeCanBeAvail ==
    /\ pc = "fg-can-be-avail"
    /\ \E o \in Orders(Range(P.FExprs)) :
          heap' = ComputeCanBeAvail(heap, [P EXCEPT !.FExprs = o])
    /\ pc' = "fg-later"
    /\ UNCHANGED FGRest

\* ComputeLater() (470-485) under one order of FExprs.
FGComputeLater ==
    /\ pc = "fg-later"
    /\ \E o \in Orders(Range(P.FExprs)) :
          heap' = ComputeLater(heap, [P EXCEPT !.FExprs = o])
    /\ pc' = "fg-done"
    /\ UNCHANGED FGRest

FGNext == FGDownSafety \/ FGComputeCanBeAvail \/ FGComputeLater

SpecFG == FGInit /\ [][FGNext]_vars

\* C14: the factors DownSafety, ComputeCanBeAvail and ComputeLater leave
\* (DownSafe, CanBeAvail, Later and the operand slots set to Bottom) are the
\* same for every order in which the loops over FExprs run: each of them
\* leaves what it leaves under the order of insertion.
C14_OrderIndependent ==
    [][ /\ pc = "fg-down-safety" => heap' = DownSafety(heap, P).heap
        /\ pc = "fg-can-be-avail" => heap' = ComputeCanBeAvail(heap, P)
        /\ pc = "fg-later" => heap' = ComputeLater(heap, P) ]_vars

\* Factor F has factor G in an operand slot.
FGRefers(F, G) == G \in Range(heap[F].versions)

\* ComputeCanBeAvail is about to run on a graph in which two factors refer
\* to each other, and it will clear CanBeAvail of both and set a slot that
\* holds a factor to Bottom.
C14_PropagationOnCycle ==
    /\ pc = "fg-can-be-avail"
    /\ \E F, G \in Range(P.FExprs) :
          /\ F # G /\ FGRefers(F, G) /\ FGRefers(G, F)
          /\ heap[F].canBeAvail /\ heap[G].canBeAvail
          /\ ~ComputeCanBeAvail(heap, P)[F].canBeAvail
          /\ ~ComputeCanBeAvail(heap, P)[G].canBeAvail
          /\ \E i \in DOMAIN heap[F].versions :
                /\ heap[F].versions[i] = G
                /\ ComputeCanBeAvail(heap, P)[F].versions[i] = BExprPtr

----------------------------------------------------------------------------
(* Steps 3 and 4 call by call.  An activation record [fn, F, i] is a call  *)
(* of fn in its loop at index i: DownSafety, ComputeCanBeAvail and         *)
(* ComputeLater loop over FExprs; ResetDownSafety stands for the loop over *)
(* the operands of F that calls ResetDownSafety(F, i) (429-431, 438-440),  *)
(* ResetCanBeAvail and ResetLater for a call with argument F in its loop   *)
(* over FExprs.  The machine stack is finite: a call deeper than MaxDepth  *)
(* does not return.                                                        *)

MaxDepth == MaxFactors + 2

Frame(fn, F, i) == [fn |-> fn, F |-> F, i |-> i]

Top == calls[Len(calls)]

\* The loop of the running call goes to its next index; the call returns;
\* the call goes to its next index and calls fr.
Advance == [calls EXCEPT ![Len(calls)].i = @ + 1]

Return == SubSeq(calls, 1, Len(calls) - 1)

Call(fr) == Append(Advance, fr)

Running(fn) == pc = "fg-calls" /\ calls # <<>> /\ Top.fn = fn

RecRest == <<cfg, analyses, prog, asserts, cur, run, reused, ir, irIn, outPrev,
             report, P, stk, rc, erasedLog, writer>>

RecInit ==
    /\ cfg = 1
    /\ analyses = AnalysesOf(1)
    /\ prog = <<>>
    /\ asserts = FALSE
    /\ cur = 1
    /\ run = 1
    /\ reused = FALSE
    /\ ir = BuildIR(1, 1, <<>>)
    /\ irIn = ir
    /\ outPrev = [ir |-> ir, report |-> "", erased |-> <<>>]
    /\ report = ""
    /\ \E vs \in FGOperandLists, ds \in [1 .. MaxFactors -> BOOLEAN] :
          heap = FGHeap(vs, ds)
    /\ P = [FreshP EXCEPT !.FExprs = FGFactors]
    /\ stk = EmptyMap
    /\ rc = EmptyMap
    /\ erasedLog = <<>>
    /\ calls = <<Frame("DownSafety", NullPtr, 1)>>
    /\ writer = NewWriter
    /\ pc = "fg-calls"

\* DownSafety (434-442); runImpl calls WillBeAvail when it returns.
StepDownSafety ==
    /\ Running("DownSafety")
    /\ IF Top.i > Len(P.FExprs)
       THEN calls' = <<Frame("ComputeCanBeAvail", NullPtr, 1)>>
       ELSE LET F == P.FExprs[Top.i]
            IN IF heap[F].downSafe THEN calls' = Advance
               ELSE /\ Len(calls) < MaxDepth
                    /\ calls' = Call(Frame("ResetDownSafety", F, 1))
    /\ UNCHANGED <<heap, pc>>
    /\ UNCHANGED RecRest

\* A faulty ResetDownSafety that goes on into a factor whose DownSafe is
\* clear already, to see that the statement about termination tells it from
\* the real one.
ReturnsAtOnceUnmarked(FE, ON) ==
    heap[FE].hru[ON] \/ ~IsFactor(heap[heap[FE].versions[ON]])

\* The two returns of ResetDownSafety(FE, ON) before it writes (419-426).
ReturnsAtOnce(FE, ON) ==
    \/ heap[FE].hru[ON]
    \/ ~IsFactor(heap[heap[FE].versions[ON]])
    \/ ~heap[heap[FE].versions[ON]].downSafe

\* ResetDownSafety(F, i) for the operands i of F (417-432).
StepResetDownSafety ==
    /\ Running("ResetDownSafety")
    /\ LET FE == Top.F
           ON == Top.i
       IN IF ON > Len(heap[FE].versions)
          THEN calls' = Return /\ heap' = heap
          ELSE LET E == heap[FE].versions[ON]
               IN IF ReturnsAtOnce(FE, ON)
                  THEN calls' = Advance /\ heap' = heap
                  ELSE /\ Len(calls) < MaxDepth
                       /\ heap' = [heap EXCEPT ![E].downSafe = FALSE]
                       /\ calls' = Call(Frame("ResetDownSafety", E, 1))
    /\ UNCHANGED pc
    /\ UNCHANGED RecRest

\* ComputeCanBeAvail (444-453); WillBeAvail calls ComputeLater when it returns.
StepComputeCanBeAvail ==
    /\ Running("ComputeCanBeAvail")
    /\ IF Top.i > Len(P.FExprs)
       THEN calls' = <<Frame("ComputeLater", NullPtr, 0)>> /\ heap' = heap
       ELSE LET F == P.FExprs[Top.i]
            IN IF ~heap[F].downSafe /\ heap[F].canBeAvail
                    /\ GetVExprIndex(heap[F], BExprPtr) # 0
               THEN /\ Len(calls) < MaxDepth
                    /\ heap' = [heap EXCEPT ![F].canBeAvail = FALSE]
                    /\ calls' = Call(Frame("ResetCanBeAvail", F, 1))
               ELSE calls' = Advance /\ heap' = heap
    /\ UNCHANGED pc
    /\ UNCHANGED RecRest

\* ResetCanBeAvail(G) in its loop over FExprs (455-468).
StepResetCanBeAvail ==
    /\ Running("ResetCanBeAvail")
    /\ IF Top.i > Len(P.FExprs)
       THEN calls' = Return /\ heap' = heap
       ELSE LET F == P.FExprs[Top.i]
                I == GetVExprIndex(heap[F], Top.F)
            IN IF I = 0 \/ heap[F].hru[I]
               THEN calls' = Advance /\ heap' = heap
               ELSE IF ~heap[F].downSafe /\ heap[F].canBeAvail
                    THEN /\ Len(calls) < MaxDepth
                         /\ heap' = [heap EXCEPT ![F].versions[I] = BExprPtr,
                                                 ![F].canBeAvail = FALSE]
                         /\ calls' = Call(Frame("ResetCanBeAvail", F, 1))
                    ELSE /\ heap' = [heap EXCEPT ![F].versions[I] = BExprPtr]
                         /\ calls' = Advance
    /\ UNCHANGED pc
    /\ UNCHANGED RecRest

\* ComputeLater (470-485): index 0 is its first loop.
StepComputeLater ==
    /\ Running("ComputeLater")
    /\ IF Top.i = 0
       THEN /\ heap' = [x \in DOMAIN heap |->
                          IF x \in Range(P.FExprs)
                          THEN [heap[x] EXCEPT !.later = heap[x].canBeAvail]
                          ELSE heap[x]]
            /\ calls' = Advance
            /\ pc' = pc
       ELSE IF Top.i > Len(P.FExprs)
       THEN calls' = <<>> /\ heap' = heap /\ pc' = "fg-done"
       ELSE LET F == P.FExprs[Top.i]
            IN /\ pc' = pc
               /\ IF heap[F].later /\ HasRealLiveOperand(heap[F])
                  THEN /\ Len(calls) < MaxDepth
                       /\ heap' = [heap EXCEPT ![F].later = FALSE]
                       /\ calls' = Call(Frame("ResetLater", F, 1))
                  ELSE calls' = Advance /\ heap' = heap
    /\ UNCHANGED RecRest

\* ResetLater(G) in its loop over FExprs (487-495).
StepResetLater ==
    /\ Running("ResetLater")
    /\ IF Top.i > Len(P.FExprs)
       THEN calls' = Return /\ heap' = heap
       ELSE LET F == P.FExprs[Top.i]
            IN IF GetVExprIndex(heap[F], Top.F) # 0 /\ heap[F].later
               THEN /\ Len(calls) < MaxDepth
                    /\ heap' = [heap EXCEPT ![F].later = FALSE]
                    /\ calls' = Call(Frame("ResetLater", F, 1))
               ELSE calls' = Advance /\ heap' = heap
    /\ UNCHANGED pc
    /\ UNCHANGED RecRest

RecNext ==
    \/ StepDownSafety
    \/ StepResetDownSafety
    \/ StepComputeCanBeAvail
    \/ StepResetCanBeAvail
    \/ StepComputeLater
    \/ StepResetLater

\* A call that can take its next step takes it.
SpecRec == RecInit /\ [][RecNext]_vars /\ WF_vars(RecNext)

\* C13: Steps 3 and 4 terminate on every factor graph, those in which
\* factors refer to each other in a cycle included: every call of
\* ResetDownSafety, ResetCanBeAvail and ResetLater returns and ComputeLater
\* ends.
C13_Terminates == <>(pc = "fg-done")

\* ResetDownSafety runs for a factor that has, in an operand slot, a factor
\* whose call of ResetDownSafety has not returned yet.
C13_CycleMet ==
    /\ pc = "fg-calls"
    /\ \E j, k \in DOMAIN calls :
          /\ j < k
          /\ calls[j].fn = "ResetDownSafety"
          /\ calls[k].fn = "ResetDownSafety"
          /\ \E i \in DOMAIN heap[calls[k].F].versions :
                /\ heap[calls[k].F].versions[i] = calls[j].F
                /\ ~heap[calls[k].F].hru[i]

----------------------------------------------------------------------------
(* Functions with PHI nodes.  The same calls of runImpl, on the source      *)
(* programs in which an expression reads a PHI of its block.               *)

\* The source programs with an expression over PHIs: the item stands first
\* in its block, and the block has a predecessor.
PhiPrograms ==
    { pg \in [1 .. 1 -> Items] :
        /\ \A k \in DOMAIN pg : pg[k].blk \in Blocks
        /\ \A k \in DOMAIN pg : k = 1 \/ pg[k - 1].blk <= pg[k].blk
        /\ \A j, k \in DOMAIN pg :
              /\ pg[j].used = pg[k].used
              /\ IsCmp(Templates[pg[j].tmpl].opc) = IsCmp(Templates[pg[k].tmpl].opc)
        /\ \E k \in DOMAIN pg : Templates[pg[k].tmpl].phis > 0
        /\ \A k \in DOMAIN pg :
              Templates[pg[k].tmpl].phis > 0 =>
                 /\ Preds(pg[k].blk) # <<>>
                 /\ k = 1 \/ pg[k - 1].blk < pg[k].blk }

\* The graphs the functions with PHI nodes are built on: the chain, the split
\* and the diamond.
PhiCFGs == {2, 3, 4}

InitPhi ==
    /\ cfg \in PhiCFGs
    /\ analyses = AnalysesOf(cfg)
    /\ prog \in PhiPrograms
    /\ asserts \in BOOLEAN
    /\ cur = 1
    /\ run = 1
    /\ reused = FALSE
    /\ pc = "collect"
    /\ ir = BuildIR(1, NumBlocks, prog)
    /\ irIn = ir
    /\ outPrev = [ir |-> ir, report |-> "", erased |-> <<>>]
    /\ report = ""
    /\ heap = <<BExprObj>>
    /\ P = FreshP
    /\ stk = EmptyMap
    /\ rc = EmptyMap
    /\ erasedLog = <<>>
    /\ calls = <<>>
    /\ writer = NewWriter

SpecPhi == InitPhi /\ [][Next]_vars

\* The factors Step 1 attached to a block.
AttachedFactors == UNION { Range(P.BlockToFactors[B]) : B \in DOMAIN P.BlockToFactors }

\* C21: every factor Step 1 created, at a block of an iterated dominance
\* frontier or at the block of an operand PHI, is in the set FExprs that
\* DownSafety, ComputeCanBeAvail and ComputeLater iterate over.
C21_EveryFactorIterated ==
    pc \in {"down-safety", "will-be-avail"} => AttachedFactors \subseteq Range(P.FExprs)

\* The rank the operands are to be ordered by: 2 + the number of an argument,
\* 3 + the number of arguments + the DFS number of an instruction.
RankByDFS(V) ==
    IF IsArgument(V) THEN 2 + ArgNo(V) ELSE 3 + NumArgs + P.InstrDFS[V]

\* C29: the prototype of a commutative instruction has the operands of the
\* instruction exchanged exactly when the rank of operand 0 is above the
\* rank of operand 1; of two instruction operands the one with the smaller
\* DFS number is operand 0.
C29_SwapByRank ==
    pc = "f-insertion" =>
        \A I \in DOMAIN ir.inst :
           IsCommutative(ir.inst[I].opc) =>
              LET ops == ir.inst[I].ops
                  e   == heap[P.VExprToPExpr[P.InstToVExpr[I]]]
              IN /\ e.ops = (IF RankByDFS(ops[1]) > RankByDFS(ops[2])
                             THEN <<ops[2], ops[1]>> ELSE ops)
                 /\ RankByDFS(e.ops[1]) <= RankByDFS(e.ops[2])

----------------------------------------------------------------------------
(* Step 4 on the factor graphs: what ComputeCanBeAvail and ComputeLater    *)
(* leave.                                                                  *)

----------------------------------------------------------------------------
(* Step 5 as runImpl reaches it.                                           *)

\* The instructions of the function whose occurrence FinalizeVisit visits.
VisitedReal ==
    { I \in DOMAIN ir.inst :
        /\ I \in DOMAIN P.InstToVExpr
        /\ IsBasic(heap[P.InstToVExpr[I]]) }

\* C24: when Finalize has visited the real occurrences, AvailDef has an
\* entry for the prototype and version of every one of them, the occurrence
\* itself or a definition found there before it, and where no factor of the
\* prototype was registered the entry is a real occurrence of the prototype.
C24_AvailDefInstalled ==
    pc = "code-motion" =>
        \A I \in VisitedReal :
           LET VE == P.InstToVExpr[I]
               PE == P.VExprToPExpr[VE]
               V  == heap[VE].version
           IN /\ MapHas(P.AvailDef, PE)
              /\ MapHas(P.AvailDef[PE], V)
              /\ (\A x \in DOMAIN heap : IsFactor(heap[x]) => heap[x].pe # PE) =>
                    /\ IsBasic(heap[P.AvailDef[PE][V]])
                    /\ P.VExprToPExpr[P.AvailDef[PE][V]] = PE

\* Finalize recorded an insertion of prototype pe at the end of block b.
InsertRecorded(b, pe) ==
    /\ MapHas(P.BlockToInserts, BlockPtr(cur, b))
    /\ pe \in Range(P.BlockToInserts[BlockPtr(cur, b)])

\* Operand slot i of factor F asks for an insertion on its edge: it holds
\* Bottom, or it has no real use and holds a factor that will not be
\* available.
InsertTrigger(F, i) ==
    LET O == heap[F].versions[i]
    IN \/ O = BExprPtr
       \/ /\ ~heap[F].hru[i]
          /\ O \in DOMAIN heap
          /\ IsFactor(heap[O])
          /\ ~WillBeAvailOf(heap[O])

\* C25: when Finalize has ended, for every block B, every successor S of B
\* and every factor F at S that will be available, an insertion of the
\* prototype of F at the end of B is recorded exactly when the operand slot
\* of F for B asks for one; Step 6 then clones the prototype before the
\* terminator of B for every recorded insertion.
C25_InsertOnEdge ==
    pc = "code-motion" =>
        \A B \in Blocks :
           \A S \in Range(Succ(B)) :
              \A F \in Range(FactorsAt(P, BlockPtr(cur, S))) :
                 WillBeAvailOf(heap[F]) =>
                    LET PI == GetPredIndex(heap[F], BlockPtr(cur, B))
                    IN InsertTrigger(F, PI) <=> InsertRecorded(B, heap[F].pe)

----------------------------------------------------------------------------
(* Step 6 on its own.  CodeMotion reads the Save and Reload marks of the   *)
(* real occurrences, the prototype of each occurrence and the factors.  It *)
(* is run here on what Steps 1 to 5 build for a function, with the marks   *)
(* drawn from every combination CodeMotion distinguishes, and with two     *)
(* occurrences of one expression either under a prototype each or under    *)
(* the prototype of the first, the grouping lines 765-773 provide for.     *)

\* The second expression of a program of two equal expressions is filed
\* under the prototype of the first (PExprToInsts[PE].insert(&I), 771-772).
Regroup(c) ==
    LET I1  == ExprOf(1)
        I2  == ExprOf(2)
        VE1 == c.P.InstToVExpr[I1]
        VE2 == c.P.InstToVExpr[I2]
        PE1 == c.P.VExprToPExpr[VE1]
        PE2 == c.P.VExprToPExpr[VE2]
        B2  == c.P.PExprToBlocks[PE2][1]
    IN [c EXCEPT
          !.P.VExprToPExpr[VE2] = PE1,
          !.P.PExprToInsts = [pe \in (DOMAIN @) \ {PE2} |->
                                 IF pe = PE1 THEN Append(@[pe], I2) ELSE @[pe]],
          !.P.PExprToBlocks = [pe \in (DOMAIN @) \ {PE2} |->
                                 IF pe = PE1 THEN SetInsert(@[pe], B2) ELSE @[pe]]]

\* Two occurrences that lines 765-773 can file under one prototype.
CanRegroup(c) ==
    /\ Len(prog) = 2
    /\ SameExpr(ir.inst[ExprOf(1)], ir.inst[ExprOf(2)])
    /\ ir.inst[ExprOf(1)].ops = ir.inst[ExprOf(2)].ops
    /\ IsBasic(c.heap[c.P.InstToVExpr[ExprOf(1)]])
    /\ IsBasic(c.heap[c.P.InstToVExpr[ExprOf(2)]])

\* The real occurrences of heap h.
RealOccurrences(h, Pm) ==
    { VE \in DOMAIN Pm.VExprToInst : VE \in DOMAIN h /\ IsBasic(h[VE]) }

\* What CodeMotion does with a real occurrence (644-664).
Marks == {"save", "reload", "kill"}

Marked(h, mk) ==
    [x \in DOMAIN h |->
        IF x \in DOMAIN mk
        THEN [h[x] EXCEPT !.save = mk[x] = "save", !.reload = mk[x] = "reload"]
        ELSE h[x]]

\* The functions Step 6 is run on: occurrences of x + y.
CMPrograms ==
    { pg \in Programs : pg # <<>> /\ \A k \in DOMAIN pg : pg[k].tmpl = 1 }

\* The state at the entry of Step 6.
CMInit ==
    /\ cfg \in DOMAIN CFGs
    /\ analyses = AnalysesOf(cfg)
    /\ prog \in CMPrograms
    /\ asserts \in BOOLEAN
    /\ cur = 1
    /\ run = 1
    /\ reused = FALSE
    /\ ir = BuildIR(1, NumBlocks, prog)
    /\ irIn = ir
    /\ outPrev = [ir |-> ir, report |-> "", erased |-> <<>>]
    /\ report = ""
    /\ erasedLog = <<>>
    /\ calls = <<>>
    /\ writer = NewWriter
    /\ pc = "code-motion"
    /\ \E share \in BOOLEAN :
       \E c0 \in {Prologue([heap |-> <<BExprObj>>, P |-> FreshP, rc |-> EmptyMap])} :
       \E c1 \in {IF share /\ CanRegroup(c0) THEN Regroup(c0) ELSE c0} :
       \E c2 \in {FactorInsertion([heap |-> c1.heap, P |-> c1.P])} :
       \E c3 \in {RenameWalk(1, RenameStart(c2.heap, c2.P, c1.rc))} :
          /\ ~c3.assertFail
          /\ \E G \in SUBSET c3.ubHru :
             \E V \in SUBSET (IF c3.ubExit THEN DownSafeFactors(c3.heap) ELSE {}) :
             \E h3 \in {DownSafety(WithGarbage(c3.heap, G, V), c3.P).heap} :
             \E h4 \in {ComputeLater(ComputeCanBeAvail(h3, c3.P), c3.P)} :
             \E c5 \in {FinalizeWalk(1, [heap |-> h4, P |-> c3.P, ub |-> FALSE,
                                         fn |-> ir])} :
             \E mk \in [RealOccurrences(c5.heap, c5.P) -> Marks] :
                /\ heap = Marked(c5.heap, mk)
                /\ P = c5.P
                /\ stk = c3.stk
                /\ rc = c3.rc

SpecCM == CMInit /\ [][CodeMotionStep]_vars

\* Step 6 runs to its end without reading through a null or dangling pointer.
CodeMotionRuns ==
    /\ pc = "code-motion"
    /\ pc' = "done"
    /\ ~CodeMotion(heap, P, ir).ub

\* The instructions Step 6 marks for a reload: Save is tested first (644).
ReloadMarked ==
    { I \in DOMAIN ir.inst :
        /\ I \in DOMAIN P.InstToVExpr
        /\ IsBasic(heap[P.InstToVExpr[I]])
        /\ ~heap[P.InstToVExpr[I]].save
        /\ heap[P.InstToVExpr[I]].reload }

NewPHIs(b) == { I \in Range(ir'.body[b]) : I \notin DOMAIN ir.inst }

\* The factors at block b that will be available.
WillBeAvailAt(b) ==
    { F \in Range(FactorsAt(P, BlockPtr(cur, b))) : WillBeAvailOf(heap[F]) }

SlotValue(F, i) == Lookup(P'.VExprToInst, heap'[F].versions[i])

----------------------------------------------------------------------------
(* BinaryStreamWriter (lib/DebugInfo/MSF/BinaryStreamWriter.cpp).  The     *)
(* writer holds Offset; the stream it writes to is the environment: a      *)
(* write to it is accepted whole or refused whole, and it is refused past  *)
(* the end of the stream.  data is what the stream holds (-1: never        *)
(* written), accepted the number of bytes it has accepted.                 *)

\* Length of the stream.
StreamLen == 4

Buffers == { <<>>, <<1>>, <<1, 2>> }

Strings == { <<>>, <<1>>, <<2, 1>> }

IntValues == { 1, 258 }

ByteSizes == { 1, 2, 4, 8 }

\* The streams handed to writeStreamRef, as their contiguous chunks.
Refs == { <<>>, << <<1>> >>, << <<1>>, <<2, 1>> >> }

\* Stream.writeBytes(Offset, Buffer) of the underlying stream; fault says
\* that the stream refuses the write.
StreamWriteBytes(w, buf, fault) ==
    IF fault \/ w.Offset + Len(buf) > StreamLen
    THEN [w EXCEPT !.ec = TRUE]
    ELSE [w EXCEPT
            !.data = [i \in 1 .. StreamLen |->
                        IF i > w.Offset /\ i <= w.Offset + Len(buf)
                        THEN buf[i - w.Offset]
                        ELSE IF i \in DOMAIN @ THEN @[i] ELSE -1],
            !.accepted = @ + Len(buf),
            !.ec = FALSE]

\* A faulty writeBytes that advances Offset before it looks at the error.
WriteBytesEager(w, buf, fault) ==
    [StreamWriteBytes(w, buf, fault) EXCEPT !.Offset = @ + Len(buf)]

\* BinaryStreamWriter::writeBytes (20-25).
WriteBytes(w, buf, fault) ==
    LET r == StreamWriteBytes(w, buf, fault)
    IN IF r.ec THEN r ELSE [r EXCEPT !.Offset = @ + Len(buf)]

\* llvm::support::endian::write16/32/64 and the cast to uint8_t (33-44).
RECURSIVE LittleEndian(_, _)
LittleEndian(Value, ByteSize) ==
    IF ByteSize = 0 THEN <<>>
    ELSE <<Value % 256>> \o LittleEndian(Value \div 256, ByteSize - 1)

EndianBytes(Value, ByteSize, endian) ==
    IF endian = "little" THEN LittleEndian(Value, ByteSize)
    ELSE Reverse(LittleEndian(Value, ByteSize))

\* BinaryStreamWriter::writeInteger (27-47).
WriteInteger(w, Value, ByteSize, fault) ==
    WriteBytes(w, EndianBytes(Value, ByteSize, w.endian), fault)

\* BinaryStreamWriter::writeFixedString (58-60).
WriteFixedString(w, Str, fault) == WriteBytes(w, Str, fault)

\* BinaryStreamWriter::writeCString (49-56); the write number failAt is
\* refused by the stream.
WriteCString(w, Str, failAt) ==
    LET r == WriteFixedString(w, Str, failAt = 1)
    IN IF r.ec THEN r ELSE WriteBytes(r, <<0>>, failAt = 2)

\* Ref.slice(0, Length) as contiguous chunks.
RECURSIVE SliceChunks(_, _)
SliceChunks(chunks, n) ==
    IF chunks = <<>> \/ n = 0 THEN <<>>
    ELSE IF Len(Head(chunks)) >= n THEN << SubSeq(Head(chunks), 1, n) >>
    ELSE <<Head(chunks)>> \o SliceChunks(Tail(chunks), n - Len(Head(chunks)))

\* The loop of writeStreamRef (73-79) from chunk k on; the reader fails at
\* chunk readFailAt, the stream refuses write number failAt.
RECURSIVE WriteChunks(_, _, _, _, _)
WriteChunks(w, chunks, k, readFailAt, failAt) ==
    IF k > Len(chunks) THEN [w EXCEPT !.ec = FALSE]
    ELSE IF k = readFailAt THEN [w EXCEPT !.ec = TRUE]
    ELSE LET r == WriteBytes(w, chunks[k], k = failAt)
         IN IF r.ec THEN r ELSE WriteChunks(r, chunks, k + 1, readFailAt, failAt)

\* BinaryStreamWriter::writeStreamRef (62-81).
WriteStreamRef(w, Ref, Length, readFailAt, failAt) ==
    WriteChunks(w, SliceChunks(Ref, Length), 1, readFailAt, failAt)

RefLength(Ref) == Len(Flatten(Ref))

BWRest == <<cfg, analyses, prog, asserts, cur, run, reused, pc, ir, irIn, outPrev,
            report, heap, P, stk, rc, erasedLog, calls>>

\* A writer constructed on a stream of either byte order.
BWInit ==
    /\ cfg = 1
    /\ analyses = AnalysesOf(1)
    /\ prog = <<>>
    /\ asserts = FALSE
    /\ cur = 1
    /\ run = 1
    /\ reused = FALSE
    /\ pc = "writer"
    /\ ir = BuildIR(1, 1, <<>>)
    /\ irIn = ir
    /\ outPrev = [ir |-> ir, report |-> "", erased |-> <<>>]
    /\ report = ""
    /\ heap = <<BExprObj>>
    /\ P = FreshP
    /\ stk = EmptyMap
    /\ rc = EmptyMap
    /\ erasedLog = <<>>
    /\ calls = <<>>
    /\ \E e \in {"little", "big"} :
          writer = [NewWriter EXCEPT !.endian = e,
                                     !.data = [i \in 1 .. StreamLen |-> -1]]

writeBytes ==
    /\ pc = "writer"
    /\ \E buf \in Buffers, fault \in BOOLEAN :
          writer' = [WriteBytes(writer, buf, fault) EXCEPT
                        !.call = <<"writeBytes", buf, fault>>]
    /\ UNCHANGED BWRest

writeInteger ==
    /\ pc = "writer"
    /\ \E v \in IntValues, n \in ByteSizes, fault \in BOOLEAN :
          writer' = [WriteInteger(writer, v, n, fault) EXCEPT
                        !.call = <<"writeInteger", n, fault>>]
    /\ UNCHANGED BWRest

writeFixedString ==
    /\ pc = "writer"
    /\ \E Str \in Strings, fault \in BOOLEAN :
          writer' = [WriteFixedString(writer, Str, fault) EXCEPT
                        !.call = <<"writeFixedString", Str, fault>>]
    /\ UNCHANGED BWRest

writeCString ==
    /\ pc = "writer"
    /\ \E Str \in Strings, failAt \in 0 .. 2 :
          writer' = [WriteCString(writer, Str, failAt) EXCEPT
                        !.call = <<"writeCString", Str, failAt>>]
    /\ UNCHANGED BWRest

writeStreamRef ==
    /\ pc = "writer"
    /\ \E Ref \in Refs :
       \E Length \in 0 .. RefLength(Ref), readFailAt, failAt \in 0 .. Len(Ref) :
          writer' = [WriteStreamRef(writer, Ref, Length, readFailAt, failAt) EXCEPT
                        !.call = <<"writeStreamRef", Length, failAt>>]
    /\ UNCHANGED BWRest

BWNext == writeBytes \/ writeInteger \/ writeFixedString \/ writeCString \/ writeStreamRef

SpecBW == BWInit /\ [][BWNext]_vars

\* The stream refuses the string write of the writeCString call just made.
StringRefused ==
    writer'.call[3] = 1 \/ writer.Offset + Len(writer'.call[2]) > StreamLen

\* C30: after every call Offset is the number of bytes the stream accepted;
\* a writeBytes that succeeds advances Offset by Buffer.size(), one whose
\* underlying write fails returns the error and leaves Offset as it was; a
\* writeCString that succeeds has written the bytes of the string and one
\* NUL after them and advanced Offset by the length of the string plus one,
\* and one whose string write fails writes nothing.
C30_OffsetAccounting ==
    [][ /\ writer'.Offset = writer'.accepted
        /\ writer'.call[1] = "writeBytes" =>
              LET buf == writer'.call[2]
                  refused == writer'.call[3] \/ writer.Offset + Len(buf) > StreamLen
              IN /\ writer'.ec <=> refused
                 /\ ~writer'.ec => writer'.Offset = writer.Offset + Len(buf)
                 /\ writer'.ec => writer'.Offset = writer.Offset
        /\ writer'.call[1] = "writeCString" =>
              LET Str == writer'.call[2]
              IN /\ ~writer'.ec =>
                       /\ writer'.Offset = writer.Offset + Len(Str) + 1
                       /\ SubSeq(writer'.data, writer.Offset + 1, writer'.Offset)
                             = Str \o <<0>>
                 /\ StringRefused =>
                       /\ writer'.ec
                       /\ writer'.data = writer.data
                       /\ writer'.accepted = writer.accepted ]_vars

\* A writeCString has just returned an error after the stream refused its
\* string write, on a writer that had written bytes before.
C30_CStringRefused ==
    /\ writer.call # <<>>
    /\ writer.call[1] = "writeCString"
    /\ writer.call[3] = 1
    /\ writer.call[2] # <<>>
    /\ writer.ec
    /\ writer.Offset > 0
    /\ writer.Offset = writer.accepted

====
